---------------------------- MODULE Spec2Model ----------------------------
(***************************************************************************)
(* A model of the transit-feed scripts: the position resolver with its    *)
(* ordered adapter chain, the source adapters, the safe formula evaluator *)
(* of the Arabic Parts, the per-natal parts loop and the derived-point    *)
(* layer of the overlay feed.                                             *)
(*                                                                         *)
(* The scripts are single-threaded batch programs without durable state:  *)
(* every operation is a call that reads its arguments and returns.  The   *)
(* state of the model is the last call made: its name (op), its arguments *)
(* and what the environment answered (args), what it returned (ret) and   *)
(* the external calls it issued, in order (calls).  A run of a script is   *)
(* one call from the initial state.                                       *)
(*                                                                         *)
(* Python values: None is the empty sequence and a present value x is     *)
(* <<x>>, so that an optional number is always a sequence.  Floats are    *)
(* modelled by integers (degrees) or, in the formula evaluator, by exact  *)
(* rationals; rounding is not modelled.                                   *)
(***************************************************************************)
EXTENDS Integers, Sequences, FiniteSets, TLC

VARIABLES op, args, ret, calls

vars == <<op, args, ret, calls>>

None == <<>>

Some(x) == <<x>>

\* The model's bounds.
MaxChain == 2

\* ------------------------------------------------------------------------
\* generate_feed_overlay.resolve_body
\* ------------------------------------------------------------------------

\* The labels compute_positions gives the adapters of a chain.
Labels == {"jpl", "swiss"}

SampleLons == {0, 123, 359}

SampleLats == {-5, 0, 2}

\* What a call func(name, when_iso) of an adapter can do: raise, return
\* None, return an empty (falsy) tuple, or return a (lon, lat) pair.
AdapterOutcomes ==
  {[kind |-> "raise"], [kind |-> "none"], [kind |-> "tuple", val |-> <<>>]}
  \cup {[kind |-> "tuple", val |-> <<lo, la>>] : lo \in SampleLons, la \in SampleLats}

\* Python's truth value of what the adapter returned (`if pos:`).
Truthy(pos) == pos.kind = "tuple" /\ Len(pos.val) > 0

\* try: pos = func(name, when_iso) / except Exception: pos = None
CallAdapter(outcome) == IF outcome.kind = "raise" THEN [kind |-> "none"] ELSE outcome

\* The for loop of resolve_body from source i on: the adapters called, and
\* (got, used) as the loop leaves them.  sources[i] = [label, outcome].
RECURSIVE ResolveLoopNoBreak(_, _, _, _)
ResolveLoopNoBreak(sources, i, got, used) ==
  IF i > Len(sources) THEN [got |-> got, used |-> used, called |-> <<>>]
  ELSE LET pos == CallAdapter(sources[i].outcome)
           g == IF Truthy(pos) THEN Some(pos.val) ELSE got
           u == IF Truthy(pos) THEN Some(sources[i].label) ELSE used
           rest == ResolveLoopNoBreak(sources, i + 1, g, u)
       IN [rest EXCEPT !.called = <<sources[i].label>> \o rest.called]

RECURSIVE ResolveLoop(_, _, _, _)
ResolveLoop(sources, i, got, used) ==
  IF i > Len(sources) THEN [got |-> got, used |-> used, called |-> <<>>]
  ELSE LET pos == CallAdapter(sources[i].outcome)
       IN IF Truthy(pos)
          THEN [got |-> Some(pos.val), used |-> Some(sources[i].label),
                called |-> <<sources[i].label>>]
          ELSE LET rest == ResolveLoop(sources, i + 1, got, used)
               IN [rest EXCEPT !.called = <<sources[i].label>> \o rest.called]

\* if not got and force_fallback: got, used = (0.0, 0.0), "calculated-fallback"
ApplyFallbackUngated(st, force_fallback) ==
  IF st.got = None
  THEN [st EXCEPT !.got = Some(<<0, 0>>), !.used = Some("calculated-fallback")]
  ELSE st

ApplyFallbackUntagged(st, force_fallback) ==
  IF st.got = None /\ force_fallback
  THEN [st EXCEPT !.got = Some(<<0, 0>>)]
  ELSE st

ApplyFallback(st, force_fallback) ==
  IF st.got = None /\ force_fallback
  THEN [st EXCEPT !.got = Some(<<0, 0>>), !.used = Some("calculated-fallback")]
  ELSE st

\* The dictionary resolve_body returns.
PositionEntry(st) ==
  [ecl_lon_deg |-> IF st.got = None THEN None ELSE Some(st.got[1][1]),
   ecl_lat_deg |-> IF st.got = None THEN None ELSE Some(st.got[1][2]),
   used_source |-> IF st.used = None THEN "missing" ELSE st.used[1]]

resolve_body(sources, force_fallback) ==
  LET st == ApplyFallback(ResolveLoop(sources, 1, None, None), force_fallback)
  IN [entry |-> PositionEntry(st), called |-> st.called]

\* The chains of at most MaxChain adapters, each with what it answers.
SourceChains ==
  UNION {[1..n -> [label : Labels, outcome : AdapterOutcomes]] : n \in 0..MaxChain}

ResolveBody ==
  /\ op = "init"
  /\ \E sources \in SourceChains, force_fallback \in BOOLEAN :
    LET r == resolve_body(sources, force_fallback)
    IN /\ op' = "resolve_body"
       /\ args' = [sources |-> sources, force_fallback |-> force_fallback]
       /\ ret' = r.entry
       /\ calls' = r.called

\* ------------------------------------------------------------------------
\* generate_feed_6month: one day of main's loop
\* ------------------------------------------------------------------------

\* The bodies of the model: two of PLANETS and two of ASTEROIDS.
Planets6 == <<"Sun", "Moon">>

Asteroids6 == <<"Vesta", "Sedna">>

\* What swe.calc_ut does for a body: a position, or a failure (it raises,
\* or returns ret < 0 and swe_calc raises RuntimeError).
SwissOutcomes ==
  {[kind |-> "fail"]} \cup {[kind |-> "ok", lon |-> lo, lat |-> la] : lo \in {0, 359}, la \in {0, 2}}

\* ASTEROID_FALLBACK[date_key].get(name): absent, or the stored longitude.
FallbackLookups ==
  {[present |-> FALSE]} \cup {[present |-> TRUE, lon |-> Some(lo)] : lo \in {0, 310}}

\* for name, body in PLANETS.items(): no try around swe_calc.
planet_entry_6month(name, sw) ==
  [id |-> name, ecl_lon_deg |-> Some(sw.lon), ecl_lat_deg |-> Some(sw.lat),
   source |-> "swiss"]

\* for name, num in ASTEROIDS.items(): Swiss, then the fallback JSON.
asteroid_entry_6month(name, sw, fb) ==
  IF sw.kind = "ok"
  THEN [id |-> name, ecl_lon_deg |-> Some(sw.lon), ecl_lat_deg |-> Some(sw.lat),
        source |-> "swiss-asteroid"]
  ELSE IF fb.present
       THEN [id |-> name, ecl_lon_deg |-> fb.lon, source |-> "fallback-json"]
       ELSE [id |-> name, error |-> "no data available"]

\* The objects of one day_entry up to the asteroids; an uncaught exception
\* of swe_calc for a planet ends main.
day_objects_6month(planetCalc, astCalc, fallback) ==
  IF \E i \in 1..Len(Planets6) : planetCalc[i].kind = "fail"
  THEN [status |-> "raised", objects |-> <<>>]
  ELSE [status |-> "ok",
        objects |->
          [i \in 1..Len(Planets6) |-> planet_entry_6month(Planets6[i], planetCalc[i])]
          \o [i \in 1..Len(Asteroids6) |->
                asteroid_entry_6month(Asteroids6[i], astCalc[i], fallback[i])]]

GenerateFeed6Month ==
  /\ op = "init"
  /\ \E planetCalc \in [1..Len(Planets6) -> SwissOutcomes],
     astCalc \in [1..Len(Asteroids6) -> SwissOutcomes],
     fallback \in [1..Len(Asteroids6) -> FallbackLookups] :
    LET r == day_objects_6month(planetCalc, astCalc, fallback)
    IN /\ op' = "generate_feed_6month"
       /\ args' = [planetCalc |-> planetCalc, astCalc |-> astCalc, fallback |-> fallback]
       /\ ret' = r
       /\ calls' = <<>>

\* ------------------------------------------------------------------------
\* fetch_transits.process_horizons_entry
\* ------------------------------------------------------------------------

\* _as_float of a cell: None, or a number.
OptAngles == {None} \cup {Some(x) : x \in {0, 123}}

\* The answer of query_horizons_id: a failure, a row whose reading raises,
\* or a row: the EclLon/EclLat columns it has (None: no such column; else
\* the cell's _as_float) and RA, DEC.
HorizonsAnswers ==
  {[kind |-> "fail"], [kind |-> "rowraises"]}
  \cup [kind : {"row"}, has_lon : BOOLEAN, has_lat : BOOLEAN,
        EclLon : OptAngles, EclLat : OptAngles, RA : OptAngles, DEC : OptAngles]

\* What the coordinate library answers for (RA, DEC): the astropy transform
\* (a pair, or a failure: an exception or a NaN), and the angle atan2 gives
\* the manual computation, in (-180, 180], with its latitude.
Conversions ==
  [astropy : {[kind |-> "fail"], [kind |-> "ok", lon |-> 370, lat |-> 1]},
   atan2_deg : {-90, 0, 180}, asin_deg : {-1, 0}]

compute_ecl_from_ra_dec(ra_deg, dec_deg, conv) ==
  IF conv.astropy.kind = "ok"
  THEN <<Some(conv.astropy.lon % 360), Some(conv.astropy.lat)>>
  ELSE <<Some(conv.atan2_deg % 360), Some(conv.asin_deg)>>

process_horizons_entry(idval, q, conv) ==
  IF q.kind = "fail" THEN [id |-> idval, error |-> "query failed"]
  ELSE IF q.kind = "rowraises" THEN [id |-> idval, error |-> "exception"]
  ELSE LET ecl_lon == IF q.has_lon THEN q.EclLon ELSE None
           ecl_lat == IF q.has_lat THEN q.EclLat ELSE None
           convert == (ecl_lon = None \/ ecl_lat = None) /\ q.RA # None /\ q.DEC # None
           fb == compute_ecl_from_ra_dec(q.RA[1], q.DEC[1], conv)
       IN [id |-> idval,
           ecl_lon_deg |-> IF convert THEN fb[1] ELSE ecl_lon,
           ecl_lat_deg |-> IF convert THEN fb[2] ELSE ecl_lat,
           ra_deg |-> q.RA, dec_deg |-> q.DEC]

ProcessHorizonsEntry ==
  /\ op = "init"
  /\ \E q \in HorizonsAnswers, conv \in Conversions :
    /\ op' = "process_horizons_entry"
    /\ args' = [q |-> q, conv |-> conv]
    /\ ret' = process_horizons_entry("10", q, conv)
    /\ calls' = <<>>

\* ------------------------------------------------------------------------
\* scripts/sources: the source adapters, and build_overlays.get_swiss
\* ------------------------------------------------------------------------

\* What an adapter call does, as its caller sees it.
Raised == [kind |-> "raise"]

NoResult == [kind |-> "none"]

Position(lon, lat) == [kind |-> "tuple", val |-> <<lon, lat>>]

\* The body names of the model; "Nibiru" is in no identifier table.
BodyNames == {"Sun", "Ceres", "Sedna", "Pholus", "Vulcan", "Nibiru"}

Upper(name) ==
  CASE name = "Sun" -> "SUN"
    [] name = "Ceres" -> "CERES"
    [] name = "Sedna" -> "SEDNA"
    [] name = "Pholus" -> "PHOLUS"
    [] name = "Vulcan" -> "VULCAN"
    [] name = "Moon" -> "MOON"
    [] OTHER -> "NIBIRU"

\* swiss_client.PLANET_IDS and AETHER_IDS, the keys of the model's bodies.
PLANET_IDS == {"SUN", "MOON", "CERES", "SEDNA"}

AETHER_IDS == {"VULCAN"}

\* build_overlays.SWISS_IDS and SWISS_MINORS, likewise.
SWISS_IDS == {"Sun", "Moon", "Pholus"}

SWISS_MINORS == {"Sedna"}

\* What the trigonometry of a conversion gives: atan2 in (-180, 180] and
\* asin in [-90, 90], in degrees.
Trigs == [atan2_deg : {-90, 0, 180}, asin_deg : {-1, 0}]

\* utils/coords.ra_dec_to_ecl: lon = (degrees(l) + 360.0) % 360.0.
ra_dec_to_ecl(ra_deg, dec_deg, trig) == <<(trig.atan2_deg + 360) % 360, trig.asin_deg>>

\* swiss_client.get_ecliptic_lonlat.  when_ok: parser.isoparse(when_iso)
\* succeeds; sw: what swe.calc_ut does; jd_base: jd * base of an Aether.
swiss_get_ecliptic_lonlat(target, when_ok, sw, jd_base) ==
  IF ~when_ok THEN NoResult
  ELSE IF Upper(target) \in PLANET_IDS
       THEN IF sw.kind = "ok" THEN Position(sw.lon, sw.lat) ELSE NoResult
       ELSE IF Upper(target) \in AETHER_IDS THEN Position(jd_base % 360, 0)
       ELSE NoResult

\* The table Horizons(...).ephemerides() returns, or an exception: the
\* ecliptic columns and the RA/DEC columns it has (None: no such column).
EphTables ==
  {[kind |-> "raise"]}
  \cup [kind : {"table"}, EclLon : {None, Some(0), Some(370)}, EclLat : {None, Some(0), Some(2)},
        RA : {None, Some(0), Some(10)}, DEC : {None, Some(0), Some(10)}]

\* horizons_client.get_ecliptic_lonlat.
horizons_get_ecliptic_lonlat(target, when_ok, eph, trig) ==
  IF ~when_ok \/ eph.kind = "raise" THEN NoResult
  ELSE LET convert == (eph.EclLon = None \/ eph.EclLat = None)
                        /\ eph.RA # None /\ eph.DEC # None
           fb == ra_dec_to_ecl(eph.RA[1], eph.DEC[1], trig)
           ecl_lon == IF convert THEN Some(fb[1]) ELSE eph.EclLon
           ecl_lat == IF convert THEN Some(fb[2]) ELSE eph.EclLat
       IN IF ecl_lon = None \/ ecl_lat = None THEN NoResult
          ELSE Position(ecl_lon[1] % 360, ecl_lat[1])

\* The answer of the Miriade service: an exception (network, JSON), no rows,
\* or the first row with its keys lower-cased (None: key absent or null).
MiriadeAnswers ==
  {[kind |-> "raise"], [kind |-> "norows"]}
  \cup [kind : {"row"}, elon : {None, Some(0), Some(370)}, ecllon : {None, Some(45)},
        elat : {None, Some(0), Some(2)}, ecllat : {None, Some(3)},
        ra : {None, Some(0), Some(10)}, dec : {None, Some(0), Some(10)}]

\* Python's `a or b` on optional numbers: a unless it is None or 0.
PyTruthy(v) == v # None /\ v # Some(0)

PyOr(a, b) == IF PyTruthy(a) THEN a ELSE b

\* miriade_client.get_ecliptic_lonlat.
miriade_get_ecliptic_lonlat(name, ans, trig) ==
  IF ans.kind # "row" THEN NoResult
  ELSE LET elon == PyOr(ans.elon, ans.ecllon)
           elat == PyOr(ans.elat, ans.ecllat)
       IN IF elon = None \/ elat = None
          THEN IF PyTruthy(ans.ra) /\ PyTruthy(ans.dec)
               THEN LET fb == ra_dec_to_ecl(ans.ra[1], ans.dec[1], trig)
                    IN Position(fb[1], fb[2])
               ELSE NoResult
          ELSE Position(elon[1] % 360, elat[1])

\* The answer of MPC.get_ephemeris: an exception, an empty table, or a row.
MpcAnswers ==
  {[kind |-> "raise"], [kind |-> "norows"]} \cup [kind : {"row"}, RA : {0, 10}, Dec : {0, 10}]

\* mpc_client.get_ecliptic_lonlat.
mpc_get_ecliptic_lonlat(name, ans, trig) ==
  IF ans.kind # "row" THEN NoResult
  ELSE LET fb == ra_dec_to_ecl(ans.RA, ans.Dec, trig) IN Position(fb[1], fb[2])

\* build_overlays.get_swiss: no try around swe.calc_ut, and a ValueError
\* for a body in neither table.
get_swiss(body, sw) ==
  IF body \in SWISS_IDS
  THEN IF sw.kind = "ok"
       THEN [kind |-> "tuple", val |-> <<sw.lon, sw.lat>>, src |-> "swiss"]
       ELSE Raised
  ELSE IF body \in SWISS_MINORS
       THEN IF sw.kind = "ok"
            THEN [kind |-> "tuple", val |-> <<sw.lon, sw.lat>>, src |-> "swiss_minor"]
            ELSE Raised
       ELSE Raised

SwissGetEclipticLonLat ==
  /\ op = "init"
  /\ \E target \in BodyNames, when_ok \in BOOLEAN, sw \in SwissOutcomes, jd_base \in {0, 725} :
       /\ op' = "swiss_client.get_ecliptic_lonlat"
       /\ args' = [target |-> target, when_ok |-> when_ok, sw |-> sw, jd_base |-> jd_base]
       /\ ret' = swiss_get_ecliptic_lonlat(target, when_ok, sw, jd_base)
       /\ calls' = <<>>

HorizonsGetEclipticLonLat ==
  /\ op = "init"
  /\ \E target \in BodyNames, when_ok \in BOOLEAN, eph \in EphTables, trig \in Trigs :
       /\ op' = "horizons_client.get_ecliptic_lonlat"
       /\ args' = [target |-> target, when_ok |-> when_ok, eph |-> eph, trig |-> trig]
       /\ ret' = horizons_get_ecliptic_lonlat(target, when_ok, eph, trig)
       /\ calls' = <<>>

MiriadeGetEclipticLonLat ==
  /\ op = "init"
  /\ \E name \in BodyNames, ans \in MiriadeAnswers, trig \in Trigs :
       /\ op' = "miriade_client.get_ecliptic_lonlat"
       /\ args' = [name |-> name, ans |-> ans, trig |-> trig]
       /\ ret' = miriade_get_ecliptic_lonlat(name, ans, trig)
       /\ calls' = <<>>

MpcGetEclipticLonLat ==
  /\ op = "init"
  /\ \E name \in BodyNames, ans \in MpcAnswers, trig \in Trigs :
       /\ op' = "mpc_client.get_ecliptic_lonlat"
       /\ args' = [name |-> name, ans |-> ans, trig |-> trig]
       /\ ret' = mpc_get_ecliptic_lonlat(name, ans, trig)
       /\ calls' = <<>>

BuildOverlaysGetSwiss ==
  /\ op = "init"
  /\ \E body \in BodyNames, sw \in SwissOutcomes :
       /\ op' = "build_overlays.get_swiss"
       /\ args' = [body |-> body, sw |-> sw]
       /\ ret' = get_swiss(body, sw)
       /\ calls' = <<>>

\* ------------------------------------------------------------------------
\* fetch_transits.evaluate_arabic_formula: the formula text and its parse
\* ------------------------------------------------------------------------

\* A formula is the sequence of its tokens; white space between tokens
\* changes neither the regular expression's answer nor the parse.
NameTokens ==
  {"asc", "ASC", "sun", "Sun", "moon", "Moon", "mc", "MC", "vertex", "foo", "real", "abs"}

NumTokens == {"0", "2", "7"}

NumVal(tok) == CASE tok = "0" -> 0 [] tok = "2" -> 2 [] OTHER -> 7

\* str.lower() on the names of the model.
Lower(name) ==
  CASE name = "ASC" -> "asc"
    [] name = "Sun" -> "sun"
    [] name = "Moon" -> "moon"
    [] name = "MC" -> "mc"
    [] OTHER -> name

Tok(toks, p) == IF p \in 1..Len(toks) THEN toks[p] ELSE "<end>"

\* The nodes ast.parse builds.
NameNode(id) == [t |-> "Name", id |-> id]

ConstantNode(v) == [t |-> "Constant", v |-> v]

BinOpNode(o, l, r) == [t |-> "BinOp", o |-> o, l |-> l, r |-> r]

UnaryOpNode(o, e) == [t |-> "UnaryOp", o |-> o, e |-> e]

TupleNode(elts) == [t |-> "Tuple", elts |-> elts]

ListNode(elts) == [t |-> "List", elts |-> elts]

SubscriptNode(value, slice) == [t |-> "Subscript", value |-> value, slice |-> slice]

SliceNode(lower, upper, step) == [t |-> "Slice", lower |-> lower, upper |-> upper, step |-> step]

CallNode(func, a) == [t |-> "Call", func |-> func, args |-> a]

AttributeNode(value, attr) == [t |-> "Attribute", value |-> value, attr |-> attr]

BinOpName(tok) ==
  CASE tok = "+" -> "Add" [] tok = "-" -> "Sub" [] tok = "*" -> "Mult" [] tok = "/" -> "Div"
    [] tok = "%" -> "Mod" [] tok = "//" -> "FloorDiv" [] OTHER -> "Pow"

Parsed(node, pos) == [ok |-> TRUE, node |-> node, pos |-> pos]

SyntaxError == [ok |-> FALSE]

\* The state of a comma-separated list up to `closer`, read from its start
\* or from after a comma (so a trailing comma is allowed): the elements read
\* so far, whether a comma was read, and whether an element may be a slice.
Elems(closer, elts, comma, slices) ==
  [closer |-> closer, elts |-> elts, comma |-> comma, slices |-> slices]

NoArg == <<>>

\* Python's expression grammar over the tokens of the model (ast.parse,
\* mode="eval"), one case per rule: sums, terms, factors, powers, primaries
\* with call, subscript and attribute trailers, atoms with tuple and list
\* displays, expression lists and slices.  The rules that continue a left
\* operand (sum_rest, term_rest, trailers) get it as x; elems gets its state.
RECURSIVE Parse(_, _, _, _)
Parse(rule, toks, p, x) ==
  CASE rule = "sum" ->
         LET l == Parse("term", toks, p, NoArg)
         IN IF l.ok THEN Parse("sum_rest", toks, l.pos, l.node) ELSE SyntaxError
    [] rule = "sum_rest" ->
         IF Tok(toks, p) \in {"+", "-"}
         THEN LET r == Parse("term", toks, p + 1, NoArg)
              IN IF r.ok
                 THEN Parse("sum_rest", toks, r.pos, BinOpNode(BinOpName(Tok(toks, p)), x, r.node))
                 ELSE SyntaxError
         ELSE Parsed(x, p)
    [] rule = "term" ->
         LET l == Parse("factor", toks, p, NoArg)
         IN IF l.ok THEN Parse("term_rest", toks, l.pos, l.node) ELSE SyntaxError
    [] rule = "term_rest" ->
         IF Tok(toks, p) \in {"*", "/", "%", "//"}
         THEN LET r == Parse("factor", toks, p + 1, NoArg)
              IN IF r.ok
                 THEN Parse("term_rest", toks, r.pos, BinOpNode(BinOpName(Tok(toks, p)), x, r.node))
                 ELSE SyntaxError
         ELSE Parsed(x, p)
    [] rule = "factor" ->
         IF Tok(toks, p) \in {"+", "-"}
         THEN LET e == Parse("factor", toks, p + 1, NoArg)
              IN IF e.ok
                 THEN Parsed(UnaryOpNode(IF Tok(toks, p) = "-" THEN "USub" ELSE "UAdd", e.node),
                             e.pos)
                 ELSE SyntaxError
         ELSE Parse("power", toks, p, NoArg)
    [] rule = "power" ->
         LET a == Parse("atom", toks, p, NoArg)
             b == IF a.ok THEN Parse("trailers", toks, a.pos, a.node) ELSE SyntaxError
         IN IF b.ok /\ Tok(toks, b.pos) = "**"
            THEN LET e == Parse("factor", toks, b.pos + 1, NoArg)
                 IN IF e.ok THEN Parsed(BinOpNode("Pow", b.node, e.node), e.pos) ELSE SyntaxError
            ELSE b
    [] rule = "trailers" ->
         ( CASE Tok(toks, p) = "(" ->
                  LET r == Parse("elems", toks, p + 1, Elems(")", <<>>, FALSE, FALSE))
                  IN IF r.ok THEN Parse("trailers", toks, r.pos, CallNode(x, r.elts))
                     ELSE SyntaxError
             [] Tok(toks, p) = "[" ->
                  LET r == Parse("elems", toks, p + 1, Elems("]", <<>>, FALSE, TRUE))
                  IN IF r.ok /\ r.elts # <<>>
                     THEN Parse("trailers", toks, r.pos,
                            SubscriptNode(x, IF r.comma THEN TupleNode(r.elts) ELSE r.elts[1]))
                     ELSE SyntaxError
             [] Tok(toks, p) = "." ->
                  IF Tok(toks, p + 1) \in NameTokens
                  THEN Parse("trailers", toks, p + 2, AttributeNode(x, Tok(toks, p + 1)))
                  ELSE SyntaxError
             [] OTHER -> Parsed(x, p) )
    [] rule = "atom" ->
         ( CASE Tok(toks, p) \in NameTokens -> Parsed(NameNode(Tok(toks, p)), p + 1)
             [] Tok(toks, p) \in NumTokens -> Parsed(ConstantNode(NumVal(Tok(toks, p))), p + 1)
             [] Tok(toks, p) = "(" ->
                  LET r == Parse("elems", toks, p + 1, Elems(")", <<>>, FALSE, FALSE))
                  IN IF r.ok
                     THEN Parsed(IF r.comma \/ r.elts = <<>> THEN TupleNode(r.elts)
                                 ELSE r.elts[1], r.pos)
                     ELSE SyntaxError
             [] Tok(toks, p) = "[" ->
                  LET r == Parse("elems", toks, p + 1, Elems("]", <<>>, FALSE, FALSE))
                  IN IF r.ok THEN Parsed(ListNode(r.elts), r.pos) ELSE SyntaxError
             [] OTHER -> SyntaxError )
    [] rule = "elems" ->
         IF Tok(toks, p) = x.closer
         THEN [ok |-> TRUE, elts |-> x.elts, comma |-> x.comma, pos |-> p + 1]
         ELSE LET e == Parse(IF x.slices THEN "slice" ELSE "sum", toks, p, NoArg)
              IN IF ~e.ok THEN SyntaxError
                 ELSE IF Tok(toks, e.pos) = ","
                      THEN Parse("elems", toks, e.pos + 1,
                                 Elems(x.closer, Append(x.elts, e.node), TRUE, x.slices))
                      ELSE IF Tok(toks, e.pos) = x.closer
                           THEN [ok |-> TRUE, elts |-> Append(x.elts, e.node),
                                 comma |-> x.comma, pos |-> e.pos + 1]
                           ELSE SyntaxError
    [] rule = "slice_part" ->
         \* one of [lower] : [upper] : [step], absent before ":", "," and "]"
         IF Tok(toks, p) \in {":", ",", "]"} THEN [ok |-> TRUE, opt |-> None, pos |-> p]
         ELSE LET e == Parse("sum", toks, p, NoArg)
              IN IF e.ok THEN [ok |-> TRUE, opt |-> Some(e.node), pos |-> e.pos]
                 ELSE SyntaxError
    [] OTHER ->
         \* rule = "slice": an expression or a slice [lower] : [upper] [: [step]]
         LET lo == Parse("slice_part", toks, p, NoArg)
         IN IF ~lo.ok THEN SyntaxError
            ELSE IF Tok(toks, lo.pos) # ":"
                 THEN IF lo.opt = None THEN SyntaxError ELSE Parsed(lo.opt[1], lo.pos)
                 ELSE LET up == Parse("slice_part", toks, lo.pos + 1, NoArg)
                      IN IF ~up.ok THEN SyntaxError
                         ELSE IF Tok(toks, up.pos) # ":"
                              THEN Parsed(SliceNode(lo.opt, up.opt, None), up.pos)
                              ELSE LET st == Parse("slice_part", toks, up.pos + 1, NoArg)
                                   IN IF st.ok
                                      THEN Parsed(SliceNode(lo.opt, up.opt, st.opt), st.pos)
                                      ELSE SyntaxError

\* ast.parse(expr, mode="eval"): an expression list up to the end of the text.
ast_parse(toks) ==
  LET r == Parse("elems", toks, 1, Elems("<end>", <<>>, FALSE, FALSE))
  IN IF r.ok /\ r.elts # <<>>
     THEN Parsed(IF r.comma THEN TupleNode(r.elts) ELSE r.elts[1], r.pos)
     ELSE SyntaxError

\* ------------------------------------------------------------------------
\* fetch_transits.evaluate_arabic_formula: the safety check and eval
\* ------------------------------------------------------------------------

RECURSIVE SeqUnion(_)
SeqUnion(sets) == IF sets = <<>> THEN {} ELSE Head(sets) \cup SeqUnion(Tail(sets))

OptSeq(opt) == IF opt = None THEN <<>> ELSE <<opt[1]>>

\* The children of a node, as ast.walk visits them.
Children(node) ==
  CASE node.t = "BinOp" -> <<node.l, node.r>>
    [] node.t = "UnaryOp" -> <<node.e>>
    [] node.t \in {"Tuple", "List"} -> node.elts
    [] node.t = "Subscript" -> <<node.value, node.slice>>
    [] node.t = "Slice" -> OptSeq(node.lower) \o OptSeq(node.upper) \o OptSeq(node.step)
    [] node.t = "Call" -> <<node.func>> \o node.args
    [] node.t = "Attribute" -> <<node.value>>
    [] OTHER -> <<>>

\* The types of the nodes ast.walk yields below an expression: the node
\* itself, its operator, its Load context, its children.
RECURSIVE NodeTypes(_)
NodeTypes(node) ==
  {node.t}
  \cup (IF node.t \in {"BinOp", "UnaryOp"} THEN {node.o} ELSE {})
  \cup (IF node.t \in {"Name", "Tuple", "List", "Subscript", "Attribute"} THEN {"Load"} ELSE {})
  \cup SeqUnion([i \in 1..Len(Children(node)) |-> NodeTypes(Children(node)[i])])

\* The identifiers of the Name nodes of an expression.
RECURSIVE NamesIn(_)
NamesIn(node) ==
  (IF node.t = "Name" THEN {node.id} ELSE {})
  \cup SeqUnion([i \in 1..Len(Children(node)) |-> NamesIn(Children(node)[i])])

_ALLOWED_NODES ==
  {"Expression", "BinOp", "UnaryOp", "Constant", "Num", "Name", "Load",
   "Add", "Sub", "Mult", "Div", "Mod", "Pow", "USub", "UAdd",
   "Tuple", "List", "Subscript", "Index", "Slice"}

IsSafeAstCallsOnly(node) == "Call" \notin NodeTypes(node)

_is_safe_ast(node) ==
  \A ty \in NodeTypes(node) \cup {"Expression"} :
    ty \notin {"Call", "Attribute"} /\ ty \in _ALLOWED_NODES

\* re.search(r"[a-zA-Z_][a-zA-Z0-9_]*\s*\(", expr): a name followed by "(".
HasCallToken(toks) ==
  \E i \in 1..(Len(toks) - 1) : toks[i] \in NameTokens /\ toks[i + 1] = "("

\* Python numbers: the exact value n/d (d > 0, in lowest terms) and whether
\* the object is an int (and not a float).
RECURSIVE Gcd(_, _)
Gcd(a, b) == IF b = 0 THEN a ELSE Gcd(b, a % b)

Abs(x) == IF x < 0 THEN -x ELSE x

Num(n, d, isint) ==
  LET g == Gcd(Abs(n), Abs(d))
      sg == IF d < 0 THEN -1 ELSE 1
  IN [k |-> "num", n |-> (sg * n) \div g, d |-> (sg * d) \div g, isint |-> isint]

Err(why) == [k |-> "err", why |-> why]

\* A result outside what the model computes exactly (a non-integral or
\* large power, a slice with a step).
Unmodelled == [k |-> "unmodelled"]

SeqVal(kind, elts) == [k |-> kind, elts |-> elts]

IsSeqVal(v) == v.k \in {"tuple", "list"}

\* floor(a / b) for b # 0.
FloorQuot(a, b) ==
  LET nn == a.n * b.d
      dd == a.d * b.n
  IN IF dd > 0 THEN nn \div dd ELSE (-nn) \div (-dd)

MaxPowExact == 3

RECURSIVE IntPow(_, _)
IntPow(a, e) ==
  IF e = 0 THEN Num(1, 1, a.isint)
  ELSE LET r == IntPow(a, e - 1) IN Num(r.n * a.n, r.d * a.d, a.isint)

NumPow(a, b) ==
  IF b.d # 1 \/ Abs(b.n) > MaxPowExact THEN Unmodelled
  ELSE IF b.n >= 0 THEN IntPow([a EXCEPT !.isint = a.isint /\ b.isint], b.n)
  ELSE IF a.n = 0 THEN Err("ZeroDivisionError")
  ELSE LET r == IntPow(a, -b.n) IN Num(r.d, r.n, FALSE)

\* A binary operator on two numbers.
NumBinOp(o, a, b) ==
  LET both == a.isint /\ b.isint
  IN CASE o = "Add" -> Num(a.n * b.d + b.n * a.d, a.d * b.d, both)
       [] o = "Sub" -> Num(a.n * b.d - b.n * a.d, a.d * b.d, both)
       [] o = "Mult" -> Num(a.n * b.n, a.d * b.d, both)
       [] o = "Div" -> IF b.n = 0 THEN Err("ZeroDivisionError")
                       ELSE Num(a.n * b.d, a.d * b.n, FALSE)
       [] o = "FloorDiv" -> IF b.n = 0 THEN Err("ZeroDivisionError")
                            ELSE Num(FloorQuot(a, b), 1, both)
       [] o = "Mod" -> IF b.n = 0 THEN Err("ZeroDivisionError")
                       ELSE LET q == FloorQuot(a, b)
                            IN Num(a.n * b.d - q * b.n * a.d, a.d * b.d, both)
       [] OTHER -> NumPow(a, b)

RECURSIVE Repeat(_, _)
Repeat(elts, n) == IF n <= 0 THEN <<>> ELSE elts \o Repeat(elts, n - 1)

\* A binary operator on Python values: numbers, tuples and lists.
PyBinOp(o, a, b) ==
  CASE a.k = "num" /\ b.k = "num" -> NumBinOp(o, a, b)
    [] IsSeqVal(a) /\ IsSeqVal(b) ->
         IF o = "Add" /\ a.k = b.k THEN SeqVal(a.k, a.elts \o b.elts) ELSE Err("TypeError")
    [] IsSeqVal(a) /\ b.k = "num" ->
         IF o = "Mult" /\ b.isint THEN SeqVal(a.k, Repeat(a.elts, b.n)) ELSE Err("TypeError")
    [] OTHER ->
         IF o = "Mult" /\ a.isint THEN SeqVal(b.k, Repeat(b.elts, a.n)) ELSE Err("TypeError")

\* seq[index]: an int index, negative from the end.
PyIndex(v, ix) ==
  IF ~IsSeqVal(v) \/ ix.k # "num" THEN Err("TypeError")
  ELSE IF ~ix.isint THEN Err("TypeError")
  ELSE LET i == IF ix.n < 0 THEN ix.n + Len(v.elts) ELSE ix.n
       IN IF i \in 0..(Len(v.elts) - 1) THEN v.elts[i + 1] ELSE Err("IndexError")

\* seq[lower:upper], each bound None or an int, clipped as Python clips.
SliceBound(opt, len, dflt) ==
  IF opt = None THEN dflt
  ELSE LET i == IF opt[1].n < 0 THEN opt[1].n + len ELSE opt[1].n
       IN IF i < 0 THEN 0 ELSE IF i > len THEN len ELSE i

PySlice(v, lo, up) ==
  IF ~IsSeqVal(v) THEN Err("TypeError")
  ELSE IF \E b \in {lo, up} : b # None /\ (b[1].k # "num" \/ (b[1].k = "num" /\ ~b[1].isint))
       THEN Err("TypeError")
  ELSE LET len == Len(v.elts)
           i == SliceBound(lo, len, 0)
           j == SliceBound(up, len, len)
       IN SeqVal(v.k, IF i < j THEN SubSeq(v.elts, i + 1, j) ELSE <<>>)

\* The first element of a sequence of values that is an error (or is not
\* modelled), if any.
FirstBad(vals) ==
  IF \E i \in 1..Len(vals) : vals[i].k \in {"err", "unmodelled"}
  THEN Some(vals[CHOOSE i \in 1..Len(vals) :
                   /\ vals[i].k \in {"err", "unmodelled"}
                   /\ \A j \in 1..(i - 1) : vals[j].k \notin {"err", "unmodelled"}])
  ELSE None

\* eval(code, {"__builtins__": {}}, names_map): the value of the expression,
\* or the exception it raises.  Operands are evaluated left to right.
RECURSIVE Eval(_, _)
Eval(node, names_map) ==
  CASE node.t = "Constant" -> Num(node.v, 1, TRUE)
    [] node.t = "Name" ->
         IF node.id \in DOMAIN names_map THEN Num(names_map[node.id], 1, FALSE)
         ELSE Err("NameError")
    [] node.t = "UnaryOp" ->
         LET v == Eval(node.e, names_map)
         IN IF v.k \in {"err", "unmodelled"} THEN v
            ELSE IF v.k # "num" THEN Err("TypeError")
            ELSE IF node.o = "USub" THEN Num(-v.n, v.d, v.isint) ELSE v
    [] node.t = "BinOp" ->
         LET bad == FirstBad(<<Eval(node.l, names_map), Eval(node.r, names_map)>>)
         IN IF bad # None THEN bad[1]
            ELSE PyBinOp(node.o, Eval(node.l, names_map), Eval(node.r, names_map))
    [] node.t \in {"Tuple", "List"} ->
         LET vals == [i \in 1..Len(node.elts) |-> Eval(node.elts[i], names_map)]
             bad == FirstBad(vals)
         IN IF bad # None THEN bad[1]
            ELSE SeqVal(IF node.t = "Tuple" THEN "tuple" ELSE "list", vals)
    [] node.t = "Subscript" ->
         LET v == Eval(node.value, names_map)
         IN IF v.k \in {"err", "unmodelled"} THEN v
            ELSE IF node.slice.t = "Slice"
                 THEN LET parts == OptSeq(node.slice.lower) \o OptSeq(node.slice.upper)
                                     \o OptSeq(node.slice.step)
                          vals == [i \in 1..Len(parts) |-> Eval(parts[i], names_map)]
                          bad == FirstBad(vals)
                          Bound(opt) == IF opt = None THEN None
                                        ELSE Some(Eval(opt[1], names_map))
                      IN IF bad # None THEN bad[1]
                         ELSE IF node.slice.step # None THEN Unmodelled
                         ELSE PySlice(v, Bound(node.slice.lower), Bound(node.slice.upper))
                 ELSE LET ix == Eval(node.slice, names_map)
                      IN IF ix.k \in {"err", "unmodelled"} THEN ix ELSE PyIndex(v, ix)
    [] node.t = "Attribute" ->
         LET v == Eval(node.value, names_map)
         IN IF v.k \in {"err", "unmodelled"} THEN v
            ELSE IF v.k = "num" /\ node.attr = "real" THEN v
            ELSE Err("AttributeError")
    [] OTHER -> Err("TypeError")

\* Line 262-264: the lower-cased names of the formula that are no lower-cased
\* key of env.
UnknownNames(node, env) ==
  {Lower(id) : id \in NamesIn(node)} \ {Lower(key) : key \in DOMAIN env}

\* names_map = {k.lower(): float(v) for k, v in env.items() if v is not None}
NamesMap(env) ==
  LET keys == {key \in DOMAIN env : env[key] # None}
  IN [lk \in {Lower(key) : key \in keys} |->
        env[CHOOSE key \in keys : Lower(key) = lk][1]]

Result(value, diag) == [value |-> value, diag |-> diag]

\* float(val) % 360.0 and the return, or the `except Exception` branch.
FinishEval(val) ==
  IF val.k = "num"
  THEN LET r == NumBinOp("Mod", val, Num(360, 1, FALSE)) IN Result(Some(<<r.n, r.d>>), None)
  ELSE Result(None, Some("eval error"))

\* formula: whether it is a str, whether it is "" and, for a str, its tokens
\* (a str of white space only has none).
evaluate_arabic_formula(formula, env) ==
  IF ~formula.is_str \/ formula.empty THEN Result(None, Some("empty formula"))
  ELSE IF HasCallToken(formula.toks) THEN Result(None, Some("function calls not allowed"))
  ELSE LET parse == ast_parse(formula.toks)
       IN IF ~parse.ok THEN Result(None, Some("parse error"))
          ELSE IF ~_is_safe_ast(parse.node) THEN Result(None, Some("unsafe formula content (calls/attributes or disallowed nodes)"))
          ELSE IF UnknownNames(parse.node, env) # {}
               THEN Result(None, Some("unknown identifier(s) in formula"))
          ELSE FinishEval(Eval(parse.node, NamesMap(env)))

MaxLen == 3

\* The tokens the formulas of every length up to MaxLen are built from.
GenTokens ==
  {"asc", "Moon", "foo", "2", "0", "+", "-", "/", "%", "**", "(", ")", "[", "]", ",", ".", ":"}

\* Formulas of config.json and of the documentation, and longer formulas of
\* each construct of the grammar.
LongFormulas ==
  { <<"ASC", "+", "Moon", "-", "Sun">>,
    <<"asc", "+", "moon", "-", "sun">>,
    <<"asc", "+", "sun", "-", "moon">>,
    <<"MC", "+", "Sun", "-", "Moon">>,
    <<"(", "asc", "+", "mc", ")", "/", "2">>,
    <<"asc", "/", "(", "sun", "-", "sun", ")">>,
    <<"-", "asc", "*", "7", "+", "sun">>,
    <<"asc", "*", "sun", "*", "moon">>,
    <<"asc", "//", "7">>,
    <<"asc", "%", "7">>,
    <<"asc", "**", "2">>,
    <<"2", "**", "-", "2">>,
    <<"(", "2", ",", "7", ")", "[", "0", "]">>,
    <<"(", "2", ",", "7", ")", "[", "-", "2", "]">>,
    <<"(", "2", ",", "7", ")", "[", "7", "]">>,
    <<"(", "2", ",", "7", ")", "[", "asc", "]">>,
    <<"(", "asc", ",", "sun", ")", "[", "2", "/", "2", "]">>,
    <<"(", "2", ",", "7", ")", "[", ":", "]", "[", "0", "]">>,
    <<"(", "2", ",", "7", ")", "[", "0", ":", "2", "]">>,
    <<"(", "(", "2", ",", "7", ")", "+", "(", "0", ",", ")", ")", "[", "2", "]">>,
    <<"(", "[", "7", "]", "*", "2", ")", "[", "2", "-", "7", "//", "7", "]">>,
    <<"[", "asc", ",", "moon", "]", "[", "0", ":", ":", "2", "]">>,
    <<"abs", "(", "asc", ")">>,
    <<"(", "asc", ")", "(", "2", ")">>,
    <<"asc", ".", "real", "+", "2">>,
    <<"(", "asc", "+", "sun", ")", ".", "real">>,
    <<"asc", "+", "vertex">>,
    <<"asc", "sun">>,
    <<"asc", "+", "(", "sun">> }

RECURSIVE TokSeqs(_)
TokSeqs(n) ==
  IF n = 0 THEN {<<>>}
  ELSE TokSeqs(n - 1) \cup {Append(s, tok) : s \in {q \in TokSeqs(n - 1) : Len(q) = n - 1},
                                              tok \in GenTokens}

\* What a caller may pass as formula: None or a number, "", and the strings.
Formulas ==
  {[is_str |-> FALSE, empty |-> FALSE, toks |-> <<>>],
   [is_str |-> TRUE, empty |-> TRUE, toks |-> <<>>]}
  \cup {[is_str |-> TRUE, empty |-> FALSE, toks |-> s] : s \in TokSeqs(MaxLen) \cup LongFormulas}

\* Environments: main's (lower-case keys, the resolved values of a natal
\* record), one with a key that is present but None, one with upper-case keys.
Envs ==
  { [k \in {"asc", "sun", "moon", "mc"} |->
       Some(CASE k = "asc" -> 10 [] k = "sun" -> 350 [] k = "moon" -> 200 [] OTHER -> 95)],
    [k \in {"asc", "sun"} |-> Some(IF k = "asc" THEN 359 ELSE 0)],
    [k \in {"asc", "sun", "moon"} |-> IF k = "moon" THEN None ELSE Some(7)],
    [k \in {"ASC", "Moon"} |-> Some(IF k = "ASC" THEN 5 ELSE 120)] }

\* The evaluation of the formula stays within what Eval computes exactly.
ExactlyModelled(formula, env) ==
  LET parse == ast_parse(formula.toks)
  IN parse.ok => Eval(parse.node, NamesMap(env)).k # "unmodelled"

EvaluateArabicFormula ==
  /\ op = "init"
  /\ \E formula \in Formulas, env \in Envs :
       /\ ExactlyModelled(formula, env)
       /\ op' = "evaluate_arabic_formula"
       /\ args' = [formula |-> formula, env |-> env]
       /\ ret' = evaluate_arabic_formula(formula, env)
       /\ calls' = <<>>

\* ------------------------------------------------------------------------
\* fetch_transits.main: the per-natal parts loop
\* ------------------------------------------------------------------------

MaxParts == 2

MaxNatal == 2

\* config.json's arabic_parts: ids in the order of the list, and formulas
\* that need the Moon, that need only the Ascendant, that do not parse, and
\* that hold a call.
PartIds == <<"Fortune", "Spirit", "Karma">>

Str(toks) == [is_str |-> TRUE, empty |-> FALSE, toks |-> toks]

PartFormulas ==
  { Str(<<"asc", "+", "moon", "-", "sun">>), Str(<<"asc", "+", "2">>),
    Str(<<"asc", "+">>), Str(<<"abs", "(", "asc", ")">>) }

PartConfigs ==
  UNION {{[i \in 1..n |-> [id |-> PartIds[i], formula |-> f[i]]] : f \in [1..n -> PartFormulas]}
         : n \in 0..MaxParts}

\* A value of a natal record: absent or null, a number, or a JSON value that
\* float() does not convert (a string that is no number).
Null == [k |-> "null"]

Number(v) == [k |-> "num", v |-> v]

NotANumber == [k |-> "str"]

\* A natal file: one that load_json cannot read, or a record with its name
\* and its angles (mc and vertex absent).
NatalFiles ==
  {[loaded |-> FALSE]}
  \cup {[loaded |-> TRUE, name |-> nm, asc |-> Number(10), sun |-> Number(350), moon |-> m]
        : nm \in {"Ada", "Bea"}, m \in {Number(200), Null, NotANumber}}

NatalDirs == UNION {[1..n -> NatalFiles] : n \in 1..MaxNatal}

results_core == <<[id |-> <<"10">>, ecl_lon_deg |-> Some(<<123, 1>>)]>>

\* Lines 461-464: env[k] = float(val) if val is not None else None, and the
\* env handed to the evaluator keeps the keys that are not None.  float()
\* raises on a value that is no number.
NatalEnvRaises(natal) == \E k \in {"asc", "sun", "moon"} : natal[k].k = "str"

NatalEnv(natal) ==
  LET keys == {k \in {"asc", "sun", "moon"} : natal[k].k = "num"}
  IN [k \in keys |-> Some(natal[k].v)]

\* Lines 466-489: the entry of one part for one natal chart.
PartEntry(part, natal_name, env) ==
  LET r == evaluate_arabic_formula(part.formula, env)
  IN IF r.diag # None
     THEN [id |-> <<part.id, natal_name>>, error |-> r.diag[1]]
     ELSE [id |-> <<part.id, natal_name>>, ecl_lon_deg |-> r.value]

PartEntries(parts, natal_name, env) ==
  [j \in 1..Len(parts) |-> PartEntry(parts[j], natal_name, env)]

LoadErrorEntry(i) == [id |-> <<"natal_load_error", i>>, error |-> "Failed to load natal file"]

\* Lines 449-493: the loop over the natal files from file i on; st holds
\* combined_objects and per_natal_feeds.  An exception that no handler
\* catches ends main.
RECURSIVE NatalLoop(_, _, _, _)
NatalLoop(parts, natals, i, st) ==
  IF i > Len(natals) THEN st
  ELSE IF ~natals[i].loaded
       THEN NatalLoop(parts, natals, i + 1,
              [st EXCEPT !.combined = Append(@, LoadErrorEntry(i))])
  ELSE IF NatalEnvRaises(natals[i]) THEN Raised
  ELSE LET name == natals[i].name
           entries == PartEntries(parts, name, NatalEnv(natals[i]))
           per_objs == results_core \o entries
       IN NatalLoop(parts, natals, i + 1,
            [combined |-> st.combined \o entries,
             per_natal |-> [n \in DOMAIN st.per_natal \cup {name} |->
                              IF n = name THEN per_objs ELSE st.per_natal[n]]])

\* combined_objects and per_natal_feeds as main writes them.
main_parts(parts, natals) ==
  NatalLoop(parts, natals, 1, [combined |-> results_core, per_natal |-> <<>>])

FetchTransitsMain ==
  /\ op = "init"
  /\ \E parts \in PartConfigs, natals \in NatalDirs :
       /\ op' = "fetch_transits.main"
       /\ args' = [parts |-> parts, natals |-> natals]
       /\ ret' = main_parts(parts, natals)
       /\ calls' = <<>>

\* ------------------------------------------------------------------------
\* generate_feed_overlay: normalize, compute_arabic_parts, compute_harmonics
\* ------------------------------------------------------------------------

\* Longitudes are counted in half degrees, which (sun + moon) / 2.0 needs.
HalfDegrees(deg) == deg + deg

Circle == HalfDegrees(360)

\* C's fmod: the remainder has the sign of the dividend.
fmod(x, y) == IF x >= 0 THEN x % y ELSE -((-x) % y)

normalize(deg) == fmod(deg + Circle, Circle)

PartNames ==
  {"Part_of_Fortune", "Part_of_Spirit", "Part_of_Karma", "Part_of_Treachery",
   "Part_of_Victory", "Part_of_Deliverance"}

Calculated(lon, src) == [ecl_lon_deg |-> Some(lon), used_source |-> src]

compute_arabic_parts(asc, sun, moon) ==
  LET is_day == (sun - asc) % Circle < HalfDegrees(180)
      fortune == asc + (IF is_day THEN moon - sun ELSE sun - moon)
      spirit == asc + (IF is_day THEN sun - moon ELSE moon - sun)
      \* (sun + moon) / 2.0 degrees is (sun + moon) \div 2 half degrees, the
      \* sum of two counts of half degrees of whole degrees being even
      karma == asc + (sun + moon) \div 2
      treachery == asc + (moon - karma)
      victory == asc + (sun - karma)
      deliverance == asc + (spirit - fortune)
      lon == [n \in PartNames |->
                CASE n = "Part_of_Fortune" -> fortune
                  [] n = "Part_of_Spirit" -> spirit
                  [] n = "Part_of_Karma" -> karma
                  [] n = "Part_of_Treachery" -> treachery
                  [] n = "Part_of_Victory" -> victory
                  [] OTHER -> deliverance]
  IN [n \in PartNames |-> Calculated(normalize(lon[n]), "calculated")]

HarmonicsAllEighth(base_positions) ==
  LET bodies == {b \in DOMAIN base_positions : base_positions[b].ecl_lon_deg # None}
  IN [h \in bodies \X {8, 9} |->
        Calculated(normalize((base_positions[h[1]].ecl_lon_deg[1] * 8) % Circle),
                   IF h[2] = 8 THEN "harmonic8" ELSE "harmonic9")]

\* base_positions: a function from body names to positions; a body without
\* a longitude gets no harmonic.
compute_harmonics(base_positions) ==
  LET bodies == {b \in DOMAIN base_positions : base_positions[b].ecl_lon_deg # None}
  IN [h \in bodies \X {8, 9} |->
        Calculated(normalize((base_positions[h[1]].ecl_lon_deg[1] * h[2]) % Circle),
                   IF h[2] = 8 THEN "harmonic8" ELSE "harmonic9")]

\* Whole degrees the longitudes of ASC, Sun and Moon are drawn from.
SampleDegrees == {0, 1, 90, 179, 180, 181, 270, 359}

ResolvedOrMissing == {None} \cup {Some(HalfDegrees(d)) : d \in SampleDegrees}

\* compute_positions, lines 141-146: the parts when ASC, Sun and Moon have a
\* longitude, then the harmonics of every position, the parts included.
derived_positions(asc, sun, moon) ==
  LET base == [b \in {"ASC", "Sun", "Moon"} |->
                 [ecl_lon_deg |-> CASE b = "ASC" -> asc [] b = "Sun" -> sun [] OTHER -> moon,
                  used_source |-> IF b = "ASC" THEN "houses" ELSE "jpl"]]
      parts == IF None \notin {asc, sun, moon}
               THEN compute_arabic_parts(asc[1], sun[1], moon[1]) ELSE <<>>
      out == [b \in DOMAIN base \cup DOMAIN parts |->
                IF b \in DOMAIN parts THEN parts[b] ELSE base[b]]
  IN [parts |-> parts, harmonics |-> compute_harmonics(out)]

ComputePositions ==
  /\ op = "init"
  /\ \E asc \in ResolvedOrMissing \ {None}, sun \in ResolvedOrMissing, moon \in ResolvedOrMissing :
       /\ op' = "compute_positions"
       /\ args' = [asc |-> asc, sun |-> sun, moon |-> moon]
       /\ ret' = derived_positions(asc, sun, moon)
       /\ calls' = <<>>

\* ------------------------------------------------------------------------
\* augment_feed: norm_deg, the angle block and the Arabic Parts of main
\* ------------------------------------------------------------------------

\* augment_feed's angles are counted in thousandths of a degree.
MilliDegrees(deg) == deg * 1000

Turn == MilliDegrees(360)

NormDegNoWrap(d) == d

norm_deg(d) ==
  LET m == d % Turn IN IF m >= 0 THEN m ELSE m + Turn

\* The end of a run: sys.exit / SystemExit with a code, or the output file.
Exit(code) == [kind |-> "exit", code |-> code]

Written(out) == [kind |-> "written", out |-> out]

part_day_night(asc, A, B, is_day, day_expr, night_expr) ==
  LET expr == IF is_day THEN day_expr ELSE night_expr
  IN CASE expr = "ASC + A - B" -> norm_deg(asc + A - B)
       [] expr = "ASC + B - A" -> norm_deg(asc + B - A)
       [] OTHER -> Raised

AugmentBodies == <<"sun", "moon", "mercury", "venus", "mars", "jupiter", "saturn">>

\* transit_long has every body of req: main checked it.
augment_compute_arabic_parts(transit_long, asc_deg, is_day) ==
  LET sun == transit_long["sun"]
      moon == transit_long["moon"]
      merc == transit_long["mercury"]
      venus == transit_long["venus"]
      mars == transit_long["mars"]
      jup == transit_long["jupiter"]
      sat == transit_long["saturn"]
  IN [fortune_deg |-> part_day_night(asc_deg, moon, sun, is_day, "ASC + A - B", "ASC + B - A"),
      spirit_deg |-> part_day_night(asc_deg, sun, moon, is_day, "ASC + A - B", "ASC + B - A"),
      eros_deg |-> part_day_night(asc_deg, venus, sun, is_day, "ASC + A - B", "ASC + B - A"),
      marriage_deg |-> part_day_night(asc_deg, venus, sat, is_day, "ASC + A - B", "ASC + B - A"),
      treachery_deg |-> norm_deg(asc_deg + mars - sat),
      karma_deg |-> norm_deg(asc_deg + sat - sun),
      vengeance_deg |-> norm_deg(asc_deg + mars - moon),
      victory_deg |-> norm_deg(asc_deg + jup - sun),
      intelligence_deg |-> norm_deg(asc_deg + merc - sun),
      deliverance_deg |-> norm_deg(asc_deg + jup - moon),
      commerce_deg |-> norm_deg(asc_deg + merc - venus)]

\* map_transit_longitudes: the longitude of each object of the feed whose id
\* is a key of key_map and whose "ecliptic" block has lon_deg; a later
\* object of the same bucket overwrites an earlier one.
RECURSIVE map_transit_longitudes(_, _)
map_transit_longitudes(objs, out) ==
  IF objs = <<>> THEN out
  ELSE LET o == Head(objs)
       IN map_transit_longitudes(Tail(objs),
            IF o.lon # None
            THEN [b \in DOMAIN out \cup {o.id} |-> IF b = o.id THEN o.lon[1] ELSE out[b]]
            ELSE out)

\* The longitude the feeds of the model give a body.
FeedLon(i) == MilliDegrees(47 * i) + 500

\* The feeds of the model: no generated_at_utc, or one object per body, of
\* which the bodies in `without` have no ecliptic longitude.
FeedObjects(without) ==
  [i \in 1..Len(AugmentBodies) |->
     [id |-> AugmentBodies[i],
      lon |-> IF AugmentBodies[i] \in without THEN None ELSE Some(FeedLon(i))]]

AugmentFeeds ==
  {[generated_at_utc |-> FALSE, objects |-> FeedObjects({})]}
  \cup {[generated_at_utc |-> TRUE, objects |-> FeedObjects(w)]
        : w \in {{}, {"sun", "moon"}} \cup {{AugmentBodies[i]} : i \in 1..Len(AugmentBodies)}}

\* What ascendant_from_site_time and mc_from_site_time return: a longitude
\* in [0, 360), here 0, 0.001, 179.999, 180, 180.001 and 359.999 degrees.
SampleAngles ==
  {0, 1, MilliDegrees(180) - 1, MilliDegrees(180), MilliDegrees(180) + 1, Turn - 1}

\* SkyCoord.from_name("Sun") ... .alt.degree: the name resolver raising, or
\* an altitude.
SunAltitudes == {Raised} \cup {[kind |-> "alt", deg |-> a] : a \in {-1, 0, 1}}

\* The writes of a run on the file system: write_feed / save_json, once,
\* as the last statement of main.
FeedWrites(r, path) ==
  IF r.kind = "written" THEN <<[call |-> "write", path |-> path]>> ELSE <<>>

\* main, lines 310-362.
augment_main(feed, asc, mc, sun_alt) ==
  IF ~feed.generated_at_utc THEN Exit(1)
  ELSE LET desc == norm_deg(asc + MilliDegrees(180))
           ic == norm_deg(mc + MilliDegrees(180))
           trans_long == map_transit_longitudes(feed.objects, <<>>)
           missing == {AugmentBodies[i] : i \in 1..Len(AugmentBodies)} \ DOMAIN trans_long
       IN IF sun_alt = Raised THEN Raised
          ELSE IF missing # {} THEN Exit(1)
          ELSE Written([angles |-> [asc_deg |-> asc, mc_deg |-> mc, desc_deg |-> desc,
                                    ic_deg |-> ic],
                        arabic_parts |-> augment_compute_arabic_parts(trans_long, asc,
                                                                      sun_alt.deg > 0),
                        is_daytime |-> sun_alt.deg > 0])

AugmentFeedMain ==
  /\ op = "init"
  /\ \E feed \in AugmentFeeds, asc \in SampleAngles, mc \in SampleAngles,
        sun_alt \in SunAltitudes :
       /\ op' = "augment_feed.main"
       /\ args' = [feed |-> feed, asc |-> asc, mc |-> mc, sun_alt |-> sun_alt]
       /\ ret' = augment_main(feed, asc, mc, sun_alt)
       /\ calls' = FeedWrites(augment_main(feed, asc, mc, sun_alt), "docs/feed_now.json")

\* ------------------------------------------------------------------------
\* compute_angles_and_parts: is_daytime, part_fortune, part_spirit, main
\* ------------------------------------------------------------------------

\* Longitudes in whole degrees.
norm360(x) ==
  LET m == x % 360 IN IF m >= 0 THEN m ELSE m + 360

\* max(-1.0, min(1.0, sin_alt)), sin_alt in hundredths.
ClipSine(sin_alt) ==
  IF sin_alt < -100 THEN -100 ELSE IF sin_alt > 100 THEN 100 ELSE sin_alt

\* math.degrees(math.asin(s)) at the sines of the model.
AsinDegrees(s) ==
  CASE s = -100 -> -90 [] s = -50 -> -30 [] s = 0 -> 0 [] s = 50 -> 30 [] OTHER -> 90

IsDaytimeInclusive(sin_alt) == AsinDegrees(ClipSine(sin_alt)) >= 0

\* is_daytime, from the sine of the altitude that lines 102-122 compute.
is_daytime(sin_alt) == AsinDegrees(ClipSine(sin_alt)) > 0

part_fortune(asc, sun, moon, day) ==
  norm360(IF day THEN asc + (moon - sun) ELSE asc + (sun - moon))

PartSpiritOfDay(asc, sun, moon, day) == norm360(asc + (sun - moon))

part_spirit(asc, sun, moon, day) ==
  norm360(IF day THEN asc + (sun - moon) ELSE asc + (moon - sun))

\* The object of the feed for a body: none, or one with or without an
\* ecliptic longitude and with or without RA/DEC (given here by the
\* longitude the conversion yields).
FeedBodyObjects(lon, converted) ==
  { [present |-> FALSE],
    [present |-> TRUE, ecl_lon_deg |-> Some(lon), radec |-> None],
    [present |-> TRUE, ecl_lon_deg |-> None, radec |-> Some(converted)],
    [present |-> TRUE, ecl_lon_deg |-> None, radec |-> None] }

\* get_body_lon_from_feed for the one candidate of the body.
get_body_lon_from_feed(obj) ==
  IF ~obj.present THEN None
  ELSE IF obj.ecl_lon_deg # None THEN obj.ecl_lon_deg
  ELSE obj.radec

MaxTargets == 2

TargetNames == <<"Reno", "Oslo", "Lima">>

\* What Swiss Ephemeris answers for a target: ASC and MC, and the sine of
\* the Sun's altitude.
TargetAnswers ==
  {[asc |-> a, mc |-> (a + 270) % 360, sin_alt |-> s] : a \in {0, 100, 359},
                                                       s \in {-120, -50, 0, 50, 120}}

TargetLists == UNION {[1..n -> TargetAnswers] : n \in 0..MaxTargets}

\* Lines 164-192: the objects main appends for target i.
target_objects(i, t, sun, moon) ==
  LET name == TargetNames[i]
      day == is_daytime(t.sin_alt)
      branch == IF day THEN "day" ELSE "night"
  IN << [id |-> <<"ASC", name>>, ecl_lon_deg |-> norm360(t.asc)],
        [id |-> <<"MC", name>>, ecl_lon_deg |-> norm360(t.mc)],
        [id |-> <<"Houses", name>>],
        [id |-> <<"PartOfFortune", name>>,
         ecl_lon_deg |-> part_fortune(norm360(t.asc), sun, moon, day), branch |-> branch],
        [id |-> <<"PartOfSpirit", name>>,
         ecl_lon_deg |-> part_spirit(norm360(t.asc), sun, moon, day), branch |-> branch] >>

RECURSIVE targets_objects(_, _, _, _)
targets_objects(targets, i, sun, moon) ==
  IF i > Len(targets) THEN <<>>
  ELSE target_objects(i, targets[i], sun, moon) \o targets_objects(targets, i + 1, sun, moon)

AnglesMainWritingFirst(generated, sun_obj, moon_obj, targets) ==
  IF ~generated THEN Exit(1)
  ELSE LET sun == get_body_lon_from_feed(sun_obj)
           moon == get_body_lon_from_feed(moon_obj)
       IN IF sun = None \/ moon = None THEN Written([objects |-> <<>>])
          ELSE Written([objects |-> targets_objects(targets, 1, sun[1], moon[1])])

\* main, lines 138-196.
angles_main(generated, sun_obj, moon_obj, targets) ==
  IF ~generated THEN Exit(1)
  ELSE LET sun == get_body_lon_from_feed(sun_obj)
           moon == get_body_lon_from_feed(moon_obj)
       IN IF sun = None \/ moon = None THEN Exit(1)
          ELSE Written([objects |-> targets_objects(targets, 1, sun[1], moon[1])])

ComputeAnglesAndPartsMain ==
  /\ op = "init"
  /\ \E generated \in BOOLEAN, sun_obj \in FeedBodyObjects(350, 349),
        moon_obj \in FeedBodyObjects(200, 20), targets \in TargetLists :
       /\ op' = "compute_angles_and_parts.main"
       /\ args' = [generated |-> generated, sun |-> sun_obj, moon |-> moon_obj,
                   targets |-> targets]
       /\ ret' = angles_main(generated, sun_obj, moon_obj, targets)
       /\ calls' = FeedWrites(angles_main(generated, sun_obj, moon_obj, targets), "args.out")

\* ------------------------------------------------------------------------
\* generate_feed_60day.houses_and_points, generate_feed_6month.houses_and_parts
\* ------------------------------------------------------------------------

\* swe_calc(swe.SUN, dt) and swe_calc(swe.MOON, dt): a failure, or a
\* longitude in whole degrees.
LuminaryOutcomes(lons) == {[kind |-> "fail"]} \cup {[kind |-> "ok", lon |-> lo, lat |-> 0] : lo \in lons}

\* houses_and_points of the 60-day feed; swe_calc raising is not caught.
houses_and_points(asc, mc, sun, moon) ==
  IF sun.kind = "fail" \/ moon.kind = "fail" THEN Raised
  ELSE [ASC |-> asc, MC |-> mc,
        PartOfFortune |-> (asc + moon.lon - sun.lon) % 360,
        PartOfSpirit |-> (asc + sun.lon - moon.lon) % 360]

\* houses_and_parts of the 6-month feed.
houses_and_parts(asc, mc, sun, moon) ==
  IF sun.kind = "fail" \/ moon.kind = "fail" THEN Raised
  ELSE [ASC |-> asc, MC |-> mc,
        PartOfFortune |-> (asc + moon.lon - sun.lon) % 360,
        PartOfSpirit |-> (asc + sun.lon - moon.lon) % 360]

\* The entries both main functions append for ASC, MC and the two parts.
point_entries(points) ==
  IF points = Raised THEN Raised
  ELSE [kind |-> "entries",
        objects |->
          << [id |-> "ASC", ecl_lon_deg |-> points.ASC, source |-> "swiss"],
             [id |-> "MC", ecl_lon_deg |-> points.MC, source |-> "swiss"],
             [id |-> "PartOfFortune", ecl_lon_deg |-> points.PartOfFortune,
              branch |-> "day", source |-> "swiss"],
             [id |-> "PartOfSpirit", ecl_lon_deg |-> points.PartOfSpirit,
              branch |-> "day", source |-> "swiss"] >>]

\* What swe.houses_ex returns for ASC (MC taken 90 degrees before it).
ProjectedAscendants == {0, 100, 200, 359}

ProjectedSunLons == {10, 150, 280, 359}

ProjectedMoonLons == {0, 75, 200, 300}

GenerateFeed60DayPoints ==
  /\ op = "init"
  /\ \E asc \in ProjectedAscendants, sun \in LuminaryOutcomes(ProjectedSunLons),
        moon \in LuminaryOutcomes(ProjectedMoonLons) :
       /\ op' = "generate_feed_60day.points"
       /\ args' = [asc |-> asc, sun |-> sun, moon |-> moon]
       /\ ret' = point_entries(houses_and_points(asc, (asc + 270) % 360, sun, moon))
       /\ calls' = <<>>

GenerateFeed6MonthPoints ==
  /\ op = "init"
  /\ \E asc \in ProjectedAscendants, sun \in LuminaryOutcomes(ProjectedSunLons),
        moon \in LuminaryOutcomes(ProjectedMoonLons) :
       /\ op' = "generate_feed_6month.points"
       /\ args' = [asc |-> asc, sun |-> sun, moon |-> moon]
       /\ ret' = point_entries(houses_and_parts(asc, (asc + 270) % 360, sun, moon))
       /\ calls' = <<>>

\* ------------------------------------------------------------------------
\* generate_feed_overlay.compute_positions
\* ------------------------------------------------------------------------

\* The bodies of the model: two of MAJORS, one of TNOs, one of AETHERS.
OverlayBodies == <<"Sun", "Moon", "Sedna", "Vulcan">>

JPL_IDS == {"Sun", "Moon", "Sedna"}

\* horizons_wrapper: None for a name without a Horizons id, and None when
\* the client raises.
horizons_wrapper(name, answer) ==
  IF name \notin JPL_IDS THEN NoResult
  ELSE IF answer = Raised THEN NoResult ELSE answer

\* What horizons_client.get_ecliptic_lonlat does for a body.
JplAnswers == {Raised, NoResult, Position(0, 0), Position(123, 1)}

\* What swe.calc_ut does inside swiss_client.
CalcAnswers == {[kind |-> "fail"], [kind |-> "ok", lon |-> 359, lat |-> 2]}

\* jd * base of the Aether bodies at the time of the run.
AetherJdBase == 2460725

\* Lines 116-133: the chain of each list of bodies, with what its adapters
\* answer at this run, and force_fallback.
OverlayChain(name, jpl, sw, when_ok) ==
  LET j == [label |-> "jpl", outcome |-> horizons_wrapper(name, jpl)]
      w == [label |-> "swiss",
            outcome |-> swiss_get_ecliptic_lonlat(name, when_ok, sw, AetherJdBase)]
  IN IF name = "Vulcan" THEN <<w>> ELSE <<j, w>>

OverlayForceFallback(name) == name \in {"Sun", "Moon"}

\* compute_house_cusps: parser.isoparse or swe.houses raising, or the
\* Ascendant in whole degrees.
HouseAnswers == {Raised} \cup {[kind |-> "asc", deg |-> a] : a \in {0, 100}}

OptHalfDegrees(opt) == IF opt = None THEN None ELSE Some(HalfDegrees(opt[1]))

\* compute_positions: the entries of the bodies, then the houses, the parts
\* and the harmonics (those of ASC, Sun, Moon and the parts).  An exception
\* of compute_house_cusps is not caught.
compute_positions(jpl, sw, when_ok, houses) ==
  LET bodies == [i \in 1..Len(OverlayBodies) |->
                   resolve_body(OverlayChain(OverlayBodies[i], jpl[i], sw[i], when_ok),
                                OverlayForceFallback(OverlayBodies[i])).entry]
  IN IF ~when_ok \/ houses = Raised THEN Raised
     ELSE LET d == derived_positions(Some(HalfDegrees(houses.deg)),
                                     OptHalfDegrees(bodies[1].ecl_lon_deg),
                                     OptHalfDegrees(bodies[2].ecl_lon_deg))
          IN [kind |-> "positions", bodies |-> bodies, parts |-> d.parts,
              harmonics |-> d.harmonics]

ComputePositionsBodies ==
  /\ op = "init"
  /\ \E jpl \in [1..Len(OverlayBodies) -> JplAnswers],
        sw \in [1..Len(OverlayBodies) -> CalcAnswers],
        when_ok \in BOOLEAN, houses \in HouseAnswers :
       \* the answers of adapters that are not in a body's chain do not matter
       /\ jpl[4] = NoResult /\ sw[4].kind = "fail"
       /\ op' = "compute_positions.bodies"
       /\ args' = [jpl |-> jpl, sw |-> sw, when_ok |-> when_ok, houses |-> houses]
       /\ ret' = compute_positions(jpl, sw, when_ok, houses)
       /\ calls' = <<>>

\* ------------------------------------------------------------------------
\* build_overlays.get_jpl_batch and fetch_transits.query_horizons_id: the
\* retry loops
\* ------------------------------------------------------------------------

\* The largest number of attempts a caller asks for.
MaxRetries == 3

\* What the loops do to the outside, in order: a query of the service, or a
\* sleep of so many seconds.
Query == [call |-> "query", secs |-> 0]

Sleep(secs) == [call |-> "sleep", secs |-> secs]

\* The bodies the batch asks for (JPL_IDS of build_overlays).
BatchIds == <<"Sun", "Moon">>

BatchNames == {BatchIds[i] : i \in 1..Len(BatchIds)}

\* One attempt of get_jpl_batch: the query raises (or the table is
\* malformed), or the table has for each body no row, or a row with its
\* EclLon, in range or not.
BatchAttempts ==
  {[kind |-> "raise", rows |-> [n \in BatchNames |-> None]]}
  \cup {[kind |-> "table", rows |-> f] : f \in [BatchNames -> {None, Some(10), Some(360)}]}

\* result[name] = (lon, lat, "jpl")
BatchRow(lon) == [kind |-> "tuple", val |-> <<lon, 1>>, src |-> "jpl"]

AttemptResultKeepingValid(o) ==
  IF o.kind = "raise" THEN [ok |-> FALSE, result |-> <<>>]
  ELSE LET found == {n \in BatchNames : o.rows[n] # None /\ o.rows[n][1] \in 0..359}
       IN [ok |-> TRUE, result |-> [n \in found |-> BatchRow(o.rows[n][1])]]

\* Lines 58-77: the result of one attempt; a longitude outside [0, 360)
\* raises, and `result` is a local of the attempt.
attempt_result(o) ==
  IF o.kind = "raise" THEN [ok |-> FALSE, result |-> <<>>]
  ELSE LET found == {n \in BatchNames : o.rows[n] # None}
       IN IF \E n \in found : ~(o.rows[n][1] >= 0 /\ o.rows[n][1] < 360)
          THEN [ok |-> FALSE, result |-> <<>>]
          ELSE [ok |-> TRUE, result |-> [n \in found |-> BatchRow(o.rows[n][1])]]

\* The loop of get_jpl_batch from attempt `attempt` (0-based) on.
RECURSIVE get_jpl_batch_from(_, _, _, _, _)
get_jpl_batch_from(outs, attempt, retries, delay, trace) ==
  IF attempt >= retries THEN [result |-> <<>>, raised |-> FALSE, trace |-> trace]
  ELSE LET o == attempt_result(outs[attempt + 1])
           t == Append(trace, Query)
       IN IF o.ok
          THEN IF DOMAIN o.result # {}
               THEN [result |-> o.result, raised |-> FALSE, trace |-> t]
               ELSE get_jpl_batch_from(outs, attempt + 1, retries, delay, t)
          ELSE IF attempt < retries - 1
               THEN get_jpl_batch_from(outs, attempt + 1, retries, delay * 2,
                                       Append(t, Sleep(delay)))
               ELSE get_jpl_batch_from(outs, attempt + 1, retries, delay, t)

get_jpl_batch(outs, retries) == get_jpl_batch_from(outs, 0, retries, 2, <<>>)

\* One attempt of query_horizons_id: the query raises, the ephemerides are
\* empty, or they have a row.
QueryAttempts == {"raise", "empty", "row"}

\* 2 ** n
RECURSIVE Pow2(_)
Pow2(n) == IF n = 0 THEN 1 ELSE 2 * Pow2(n - 1)

\* The loop of query_horizons_id from attempt `attempt` (1-based) on; the
\* answer is (ok, res), res being the row, a new RuntimeError, or last_exc
\* (None when no attempt was made).
RECURSIVE query_horizons_id_from(_, _, _, _, _, _)
query_horizons_id_from(outs, attempt, max_attempts, backoff_base, last_exc, trace) ==
  IF attempt > max_attempts
  THEN [ok |-> FALSE, res |-> last_exc, raised |-> FALSE, trace |-> trace]
  ELSE LET o == outs[attempt]
           t == Append(trace, Query)
       IN IF o = "row" THEN [ok |-> TRUE, res |-> "row", raised |-> FALSE, trace |-> t]
          ELSE IF o = "empty"
               THEN [ok |-> FALSE, res |-> "RuntimeError", raised |-> FALSE, trace |-> t]
               ELSE query_horizons_id_from(outs, attempt + 1, max_attempts, backoff_base,
                                           "exception",
                                           Append(t, Sleep(backoff_base * Pow2(attempt - 1))))

query_horizons_id(outs, max_attempts, backoff_base) ==
  query_horizons_id_from(outs, 1, max_attempts, backoff_base, "None", <<>>)

GetJplBatch ==
  /\ op = "init"
  /\ \E retries \in 1..MaxRetries :
       \E outs \in [1..retries -> BatchAttempts] :
         LET r == get_jpl_batch(outs, retries)
         IN /\ op' = "build_overlays.get_jpl_batch"
            /\ args' = [outs |-> outs, retries |-> retries]
            /\ ret' = [result |-> r.result, raised |-> r.raised]
            /\ calls' = r.trace

QueryHorizonsId ==
  /\ op = "init"
  /\ \E max_attempts \in 1..MaxRetries, backoff_base \in {1, 3} :
       \E outs \in [1..max_attempts -> QueryAttempts] :
         LET r == query_horizons_id(outs, max_attempts, backoff_base)
         IN /\ op' = "fetch_transits.query_horizons_id"
            /\ args' = [outs |-> outs, max_attempts |-> max_attempts,
                        backoff_base |-> backoff_base]
            /\ ret' = [ok |-> r.ok, res |-> r.res, raised |-> r.raised]
            /\ calls' = r.trace

\* ------------------------------------------------------------------------
\* build_overlays.main and generate_feed_60day.main: the loops over bodies
\* ------------------------------------------------------------------------

\* The bodies of build_overlays that are not in JPL_IDS: one of SWISS_IDS,
\* one of SWISS_MINORS.
SwissOnlyBodies == <<"Pholus", "Sedna">>

OverlayObject(b, got) ==
  [id |-> b, ecl_lon_deg |-> got.val[1], ecl_lat_deg |-> got.val[2], source |-> got.src]

FixedStarObject == [id |-> "Regulus", ecl_lon_deg |-> 150, ecl_lat_deg |-> 0, source |-> "fixed"]

\* Lines 164-200: the batch, the majors, the bodies of Swiss alone, the
\* fixed stars; sw is what swe.calc_ut does for each body.  No call of
\* get_swiss is in a try.
build_overlays_main(batch_outs, sw) ==
  LET jpl_results == get_jpl_batch(batch_outs, 3).result
      major(i) == IF BatchIds[i] \in DOMAIN jpl_results THEN jpl_results[BatchIds[i]]
                  ELSE get_swiss(BatchIds[i], sw[BatchIds[i]])
      minor(i) == get_swiss(SwissOnlyBodies[i], sw[SwissOnlyBodies[i]])
  IN IF \/ \E i \in 1..Len(BatchIds) : major(i) = Raised
        \/ \E i \in 1..Len(SwissOnlyBodies) : minor(i) = Raised
     THEN Raised
     ELSE Written([i \in 1..Len(BatchIds) |-> OverlayObject(BatchIds[i], major(i))]
                  \o [i \in 1..Len(SwissOnlyBodies) |->
                        OverlayObject(SwissOnlyBodies[i], minor(i))]
                  \o <<FixedStarObject>>)

BuildOverlaysMain ==
  /\ op = "init"
  /\ \E batch_outs \in [1..3 -> BatchAttempts],
        sw \in [{"Sun", "Moon", "Pholus", "Sedna"} -> CalcAnswers] :
       /\ op' = "build_overlays.main"
       /\ args' = [batch_outs |-> batch_outs, sw |-> sw]
       /\ ret' = build_overlays_main(batch_outs, sw)
       /\ calls' = get_jpl_batch(batch_outs, 3).trace

\* PLANETS and ASTEROIDS of generate_feed_60day.
Planets60 == <<"10", "301">>

Asteroids60 == <<"4", "16">>

\* swe_calc: the pair, or an exception.
swe_calc(sw) == IF sw.kind = "ok" THEN Position(sw.lon, sw.lat) ELSE Raised

\* Lines 93-112 for one day: the planets, with no try, then the asteroids,
\* each in a try.
bodies_60day(sw_planets, sw_asteroids) ==
  IF \E i \in 1..Len(Planets60) : swe_calc(sw_planets[i]) = Raised THEN Raised
  ELSE Written([i \in 1..Len(Planets60) |->
                  [id |-> Planets60[i], ecl_lon_deg |-> Some(sw_planets[i].lon),
                   source |-> "swiss", error |-> FALSE]]
               \o [i \in 1..Len(Asteroids60) |->
                     IF swe_calc(sw_asteroids[i]) = Raised
                     THEN [id |-> Asteroids60[i], ecl_lon_deg |-> None,
                           source |-> "", error |-> TRUE]
                     ELSE [id |-> Asteroids60[i], ecl_lon_deg |-> Some(sw_asteroids[i].lon),
                           source |-> "swiss-asteroid", error |-> FALSE]])

GenerateFeed60DayBodies ==
  /\ op = "init"
  /\ \E sw_planets \in [1..Len(Planets60) -> SwissOutcomes],
        sw_asteroids \in [1..Len(Asteroids60) -> SwissOutcomes] :
       /\ op' = "generate_feed_60day.bodies"
       /\ args' = [sw_planets |-> sw_planets, sw_asteroids |-> sw_asteroids]
       /\ ret' = bodies_60day(sw_planets, sw_asteroids)
       /\ calls' = <<>>

\* ------------------------------------------------------------------------
\* generate_feed.build_feed
\* ------------------------------------------------------------------------

\* TARGETS: the luminaries and one more body.
FeedTargets == <<"sun", "moon", "mars">>

\* _fetch_vectors then _vectors_to_ecliptic_lonlat for a target: an
\* exception, or the ecliptic position.
VectorOutcomes ==
  {[kind |-> "fail", stage |-> st] : st \in {"fetch", "convert"}}
  \cup {[kind |-> "ok", lon |-> lo] : lo \in {0, 120, 359}}

BuildFeedOmittingFailures(fetched) ==
  LET ok == SelectSeq([i \in 1..Len(fetched) |-> [i |-> i, f |-> fetched[i]]],
                      LAMBDA x : x.f.kind = "ok")
  IN [kind |-> "written",
      out |-> [k \in 1..Len(ok) |->
                 [id |-> <<"sun", "moon", "mars">>[ok[k].i], ecliptic |-> Some(ok[k].f.lon),
                  error |-> FALSE]]]

\* SystemExit with a message: exit status 1; `out` is what was written to
\* FEED_OUT before.
ExitWritten(out) == [kind |-> "exit", code |-> 1, out |-> out]

\* build_feed: one object per target, with "ecliptic" or with "error"; then
\* the health check on the Sun and the Moon.  The value returned is written
\* by main.
build_feed(fetched) ==
  LET objects == [i \in 1..Len(FeedTargets) |->
                    IF fetched[i].kind = "ok"
                    THEN [id |-> FeedTargets[i], ecliptic |-> Some(fetched[i].lon),
                          error |-> FALSE]
                    ELSE [id |-> FeedTargets[i], ecliptic |-> None, error |-> TRUE]]
      have(ids) == \E i \in 1..Len(objects) :
                     objects[i].id \in ids /\ objects[i].ecliptic # None
      have_sun == have({"sun", "10"})
      have_moon == have({"moon", "301"})
  IN IF ~(have_sun /\ have_moon) THEN ExitWritten(objects)
     ELSE Written(objects)

GenerateFeedBuildFeed ==
  /\ op = "init"
  /\ \E fetched \in [1..Len(FeedTargets) -> VectorOutcomes] :
       /\ op' = "generate_feed.build_feed"
       /\ args' = [fetched |-> fetched]
       /\ ret' = build_feed(fetched)
       /\ calls' = <<>>

\* ------------------------------------------------------------------------
\* generate_feed_6month.main: the sources consulted for each body
\* ------------------------------------------------------------------------

\* meta.source_order
source_order_6month == <<"jpl", "swiss", "miriade", "fallback">>

\* The sources main consults for the bodies of a day, in order: swe_calc for
\* each planet; swe_calc for each asteroid, then ASTEROID_FALLBACK when it
\* raised.
consulted_6month(astCalc) ==
  [i \in 1..Len(Planets6) |-> <<"swiss">>]
  \o [i \in 1..Len(Asteroids6) |->
        IF astCalc[i].kind = "ok" THEN <<"swiss">> ELSE <<"swiss", "fallback">>]

GenerateFeed6MonthMain ==
  /\ op = "init"
  /\ \E planetCalc \in [1..Len(Planets6) -> SwissOutcomes],
        astCalc \in [1..Len(Asteroids6) -> SwissOutcomes],
        fallback \in [1..Len(Asteroids6) -> FallbackLookups] :
       LET r == day_objects_6month(planetCalc, astCalc, fallback)
       IN /\ op' = "generate_feed_6month.main"
          /\ args' = [planetCalc |-> planetCalc, astCalc |-> astCalc, fallback |-> fallback]
          /\ ret' = [status |-> r.status, objects |-> r.objects,
                     source_order |-> source_order_6month]
          /\ calls' = IF r.status = "ok" THEN consulted_6month(astCalc) ELSE <<>>

\* ------------------------------------------------------------------------
\* generate_feed_overlay.compute_harmonics on its own
\* ------------------------------------------------------------------------

\* The keys of base_positions: two bodies and a part.
HarmonicBodies == {"Sun", "Moon", "Part_of_Fortune"}

\* The longitudes of base_positions, in half degrees: None, or a float; a
\* part can be negative (fmod keeps the sign of a negative sum).
HarmonicLons ==
  {None} \cup {Some(1)} \cup {Some(HalfDegrees(d)) : d \in {-100, 0, 45, 359}}

\* compute_harmonics(base_positions): the dict it returns, and base_positions
\* as the call leaves it (the function only reads it).
ComputeHarmonics ==
  /\ op = "init"
  /\ \E lons \in [HarmonicBodies -> HarmonicLons] :
       LET base_positions == [b \in HarmonicBodies |->
                                [ecl_lon_deg |-> lons[b], used_source |-> "jpl"]]
       IN /\ op' = "compute_harmonics"
          /\ args' = [base_positions |-> base_positions]
          /\ ret' = [base_positions |-> base_positions,
                     harmonics |-> compute_harmonics(base_positions)]
          /\ calls' = <<>>

\* ------------------------------------------------------------------------
\* fetch_transits.main in generator mode: what it writes and returns
\* ------------------------------------------------------------------------

MakeDirs == [call |-> "makedirs", path |-> "out_dir"]

WriteJson(path) == [call |-> "write_json", path |-> path]

Return(code) == [kind |-> "return", code |-> code]

\* feed_<sanitize_name(natal_name)>.json
NatalFeedFile(name) == IF name = "Ada" THEN "feed_Ada.json" ELSE "feed_Bea.json"

\* --overlay-charts / OVERLAY_CHARTS after the split: no chart, a chart that
\* has a natal feed, and one more that has none.
OverlayCharts == {<<>>, <<"Ada">>, <<"Ada", "Zed">>}

OverlayFeedFile(chart_names) ==
  IF Len(chart_names) = 1 THEN "feed_overlay_Ada.json" ELSE "feed_overlay_Ada_Zed.json"

\* The keys of per_natal_feeds in the order of their insertion.
RECURSIVE NatalNames(_, _, _)
NatalNames(natals, i, seen) ==
  IF i > Len(natals) THEN seen
  ELSE IF natals[i].loaded /\ ~\E k \in 1..Len(seen) : seen[k] = natals[i].name
       THEN NatalNames(natals, i + 1, Append(seen, natals[i].name))
       ELSE NatalNames(natals, i + 1, seen)

\* The files main would write, lines 504-559: the combined feed, one feed
\* per key of per_natal_feeds, the overlay feed when charts are named.
OutputFiles(natals, chart_names) ==
  LET names == NatalNames(natals, 1, <<>>)
  IN <<"feed_now.json">>
     \o [k \in 1..Len(names) |-> NatalFeedFile(names[k])]
     \o (IF chart_names = <<>> THEN <<>> ELSE <<OverlayFeedFile(chart_names)>>)

WritesSkippingOverlay(dry_run, files) ==
  IF dry_run THEN SelectSeq([k \in 1..Len(files) |-> WriteJson(files[k])],
                            LAMBDA c : c.path \in {"feed_overlay_Ada.json",
                                                   "feed_overlay_Ada_Zed.json"})
  ELSE [k \in 1..Len(files) |-> WriteJson(files[k])]

\* if args.dry_run: log.info(...) else: write_json(...), for each file.
Writes(dry_run, files) ==
  IF dry_run THEN <<>> ELSE [k \in 1..Len(files) |-> WriteJson(files[k])]

\* main without --fetch-url.  cfg_ok: load_json(args.config) succeeds;
\* writable: write_json succeeds.  The value is what main returns or raises
\* and the calls it made on the file system.
generator_main(dry_run, cfg_ok, writable, parts, natals, chart_names) ==
  IF ~cfg_ok THEN [ret |-> Return(2), calls |-> <<MakeDirs>>]
  ELSE IF main_parts(parts, natals) = Raised THEN [ret |-> Raised, calls |-> <<MakeDirs>>]
  ELSE LET w == Writes(dry_run, OutputFiles(natals, chart_names))
       IN IF w # <<>> /\ ~writable
          THEN [ret |-> Raised, calls |-> <<MakeDirs, w[1]>>]
          ELSE [ret |-> Return(0), calls |-> <<MakeDirs>> \o w]

\* The configurations and natal directories of the runs of the generator.
GeneratorParts == {p \in PartConfigs : Len(p) <= 1}

GeneratorNatals == {n \in NatalDirs : Len(n) <= 2}

FetchTransitsGenerator ==
  /\ op = "init"
  /\ \E dry_run \in BOOLEAN, cfg_ok \in BOOLEAN, writable \in BOOLEAN,
        parts \in GeneratorParts, natals \in GeneratorNatals, chart_names \in OverlayCharts :
       LET r == generator_main(dry_run, cfg_ok, writable, parts, natals, chart_names)
       IN /\ op' = "fetch_transits.main.generator"
          /\ args' = [dry_run |-> dry_run, cfg_ok |-> cfg_ok, writable |-> writable,
                      parts |-> parts, natals |-> natals, chart_names |-> chart_names]
          /\ ret' = r.ret
          /\ calls' = r.calls

\* ------------------------------------------------------------------------
\* swe.houses and its three callers: compute_angles_and_parts.swiss_angles,
\* build_overlays.compute_angles, generate_feed_overlay.compute_house_cusps
\* ------------------------------------------------------------------------

\* What swe.houses returns: the tuple of the 12 cusps, cusp 1 first, and
\* the tuple of the angles (Ascendant, MC, ARMC, Vertex), all in [0, 360).
\* The Ascendant is cusp 1 or not, by the house system.
HouseTables ==
  {[cusps |-> [i \in 1..12 |-> (c1 + step * (i - 1)) % 360],
    ascmc |-> <<(c1 + shift) % 360, (c1 + 9 * step) % 360, armc, vertex>>]
   : c1 \in {0, 15, 350}, step \in {28, 30, 33}, shift \in {0, 7},
     armc \in {5, 100}, vertex \in {200, 300}}

\* Python's t[a:b] of a tuple, a and b counted from 0.
PySliceOf(t, a, b) ==
  LET hi == IF b < Len(t) THEN b ELSE Len(t)
  IN IF a >= hi THEN <<>> ELSE SubSeq(t, a + 1, hi)

\* swiss_angles: cusps, ascmc = swe.houses(...), then cusps[1:13].
swiss_angles(h) ==
  LET cusps == h.cusps
      ascmc == h.ascmc
      tail == PySliceOf(cusps, 1, 13)
  IN [ASC_deg |-> norm360(ascmc[1]), MC_deg |-> norm360(ascmc[2]),
      houses_deg |-> <<None>> \o [i \in 1..Len(tail) |-> Some(norm360(tail[i]))]]

\* The "houses_deg" of the Houses@<name> object: ang["houses_deg"][1:].
houses_entry(ang) == PySliceOf(ang.houses_deg, 1, Len(ang.houses_deg))

\* build_overlays.normalize_deg, on whole degrees.
normalize_deg(x) == x % 360

\* build_overlays.compute_angles: ascmc, cusps = swe.houses(...), the first
\* tuple bound to ascmc, the second to cusps.
compute_angles(h) ==
  LET ascmc == h.cusps
      cusps == h.ascmc
  IN [ASC |-> normalize_deg(ascmc[1]), MC |-> normalize_deg(ascmc[2]),
      houses |-> [i \in 1..Len(cusps) |-> normalize_deg(cusps[i])],
      ascmc_all |-> [i \in 1..Len(ascmc) |-> normalize_deg(ascmc[i])]]

\* generate_feed_overlay.compute_house_cusps: cusps, ascmc = swe.houses(...);
\* House_i for i, cusp in enumerate(cusps, start=1), then ASC and MC.
compute_house_cusps(h) ==
  LET cusps == h.cusps
      ascmc == h.ascmc
  IN [houses |-> [i \in 1..Len(cusps) |-> cusps[i]], ASC |-> ascmc[1], MC |-> ascmc[2]]

SwissAngles ==
  /\ op = "init"
  /\ \E h \in HouseTables :
       /\ op' = "compute_angles_and_parts.swiss_angles"
       /\ args' = h
       /\ ret' = [ang |-> swiss_angles(h), houses_entry |-> houses_entry(swiss_angles(h))]
       /\ calls' = <<>>

BuildOverlaysComputeAngles ==
  /\ op = "init"
  /\ \E h \in HouseTables :
       /\ op' = "build_overlays.compute_angles"
       /\ args' = h
       /\ ret' = compute_angles(h)
       /\ calls' = <<>>

ComputeHouseCusps ==
  /\ op = "init"
  /\ \E h \in HouseTables :
       /\ op' = "generate_feed_overlay.compute_house_cusps"
       /\ args' = h
       /\ ret' = compute_house_cusps(h)
       /\ calls' = <<>>

\* ------------------------------------------------------------------------
\* generate_feed_overlay.horizons_wrapper: the identifier sent to Horizons
\* ------------------------------------------------------------------------

\* generate_feed_overlay.JPL_IDS, the entries of five bodies.
JplIdOf ==
  [Sun |-> "10", Moon |-> "301", Ceres |-> "1", Hygiea |-> "10", Sedna |-> "90377"]

\* horizons_client.HORIZONS_IDS, the entries of the same bodies.
HORIZONS_IDS ==
  [SUN |-> "10", MOON |-> "301", CERES |-> "1;", HYGIEA |-> "10;", SEDNA |-> "90377"]

\* horizons_client, line 70: tid = HORIZONS_IDS.get(target.upper(), target);
\* the targets the wrapper passes are strings of digits, which upper()
\* leaves as they are.
horizons_tid(target) ==
  IF target \in DOMAIN HORIZONS_IDS THEN HORIZONS_IDS[target] ELSE target

\* The identifier Horizons is queried with for a name, None when the
\* wrapper returns before any query.
queried_id(name) ==
  IF name \notin DOMAIN JplIdOf THEN None ELSE Some(horizons_tid(JplIdOf[name]))

\* The names resolved in a run, "Vulcan" having no identifier.
WrapperNames == {"Sun", "Moon", "Ceres", "Hygiea", "Sedna", "Vulcan"}

\* What Horizons answers for an identifier: the position of that target.
HorizonsById ==
  [{"10", "301", "1", "90377", "10;", "1;"} -> {Position(10, 0), Position(200, 5)}]

\* horizons_wrapper for the name, with the service answering by identifier.
wrapper_position(name, service) ==
  IF queried_id(name) = None THEN NoResult ELSE service[queried_id(name)[1]]

\* Two bodies resolved through horizons_wrapper in one run.
HorizonsWrapperPair ==
  /\ op = "init"
  /\ \E n1 \in WrapperNames, n2 \in WrapperNames, service \in HorizonsById :
       /\ n1 # n2
       /\ op' = "horizons_wrapper.pair"
       /\ args' = [names |-> <<n1, n2>>, service |-> service]
       /\ ret' = <<wrapper_position(n1, service), wrapper_position(n2, service)>>
       /\ calls' = <<queried_id(n1), queried_id(n2)>>

\* ------------------------------------------------------------------------
\* The Parts of Fortune and Spirit of both scripts, on both branches
\* ------------------------------------------------------------------------

\* Longitudes in [0, 360): whole degrees for compute_angles_and_parts,
\* thousandths of a degree for augment_feed.
PartLons == {0, 1, 90, 180, 270, 359}

PartMilliLons == {0, 500, MilliDegrees(180), Turn - 1}

\* part_fortune and part_spirit of compute_angles_and_parts at one
\* (asc, sun, moon), on the branch `day` and on the other one.
PartFortuneSpirit ==
  /\ op = "init"
  /\ \E asc \in PartLons, sun \in PartLons, moon \in PartLons, day \in BOOLEAN :
       /\ op' = "compute_angles_and_parts.parts"
       /\ args' = [asc |-> asc, sun |-> sun, moon |-> moon, day |-> day]
       /\ ret' = [fortune |-> part_fortune(asc, sun, moon, day),
                  spirit |-> part_spirit(asc, sun, moon, day),
                  fortune_other |-> part_fortune(asc, sun, moon, ~day),
                  spirit_other |-> part_spirit(asc, sun, moon, ~day)]
       /\ calls' = <<>>

\* compute_arabic_parts of augment_feed at one (asc, sun, moon), on the
\* branch is_day and on the other one.
AugmentComputeArabicParts ==
  /\ op = "init"
  /\ \E asc \in PartMilliLons, sun \in PartMilliLons, moon \in PartMilliLons,
        is_day \in BOOLEAN :
       LET transit_long ==
             [b \in {AugmentBodies[i] : i \in DOMAIN AugmentBodies} |->
                IF b = "sun" THEN sun ELSE IF b = "moon" THEN moon ELSE MilliDegrees(45)]
       IN /\ op' = "augment_feed.compute_arabic_parts"
          /\ args' = [asc |-> asc, sun |-> sun, moon |-> moon, day |-> is_day]
          /\ ret' = [parts |-> augment_compute_arabic_parts(transit_long, asc, is_day),
                     parts_other |-> augment_compute_arabic_parts(transit_long, asc, ~is_day)]
          /\ calls' = <<>>

\* ------------------------------------------------------------------------
\* The resolvers
\* ------------------------------------------------------------------------

Init ==
  /\ op = "init"
  /\ args = <<>>
  /\ ret = <<>>
  /\ calls = <<>>

NextResolve == ResolveBody \/ GenerateFeed6Month \/ ProcessHorizonsEntry

SpecResolve == Init /\ [][NextResolve]_vars

NextAdapters ==
  \/ SwissGetEclipticLonLat
  \/ HorizonsGetEclipticLonLat
  \/ MiriadeGetEclipticLonLat
  \/ MpcGetEclipticLonLat
  \/ BuildOverlaysGetSwiss

SpecAdapters == Init /\ [][NextAdapters]_vars

\* An entry carries a longitude (a latitude): the key is there and not null.
HasLon(e) == "ecl_lon_deg" \in DOMAIN e /\ e.ecl_lon_deg # None

HasLat(e) == "ecl_lat_deg" \in DOMAIN e /\ e.ecl_lat_deg # None

\* The index of the first adapter of a chain that returns a position.
Succeeds(src) == src.outcome.kind = "tuple" /\ src.outcome.val # <<>>

FirstSuccess(sources) ==
  {i \in 1..Len(sources) : Succeeds(sources[i]) /\ \A j \in 1..(i - 1) : ~Succeeds(sources[j])}

\* C1: resolve_body calls the adapters in list order up to and including the
\* first one that returns a position, calls none after it, and returns that
\* adapter's (longitude, latitude) under that adapter's label; an adapter that
\* raises or returns nothing counts as a failure and the next one is tried.
C1_FirstSuccessInOrder ==
  op = "resolve_body" =>
    LET S == args.sources
    IN IF FirstSuccess(S) = {}
       THEN calls = [j \in 1..Len(S) |-> S[j].label]
       ELSE \A k \in FirstSuccess(S) :
              /\ calls = [j \in 1..k |-> S[j].label]
              /\ ret = [ecl_lon_deg |-> Some(S[k].outcome.val[1]),
                        ecl_lat_deg |-> Some(S[k].outcome.val[2]),
                        used_source |-> S[k].label]

C1_Witness ==
  /\ op = "resolve_body"
  /\ Len(args.sources) = 2
  /\ args.sources[1].outcome.kind = "raise"
  /\ Succeeds(args.sources[2])
  /\ calls = <<args.sources[1].label, args.sources[2].label>>
  /\ ret.used_source = args.sources[2].label

\* C2: when every adapter fails, resolve_body returns "missing" with null
\* longitude and latitude if force_fallback is false and the placeholder
\* (0.0, 0.0) tagged "calculated-fallback" if it is true; the placeholder is
\* returned in no other case.
C2_FallbackGating ==
  op = "resolve_body" =>
    LET allFail == FirstSuccess(args.sources) = {}
    IN /\ (allFail /\ ~args.force_fallback) =>
            ret = [ecl_lon_deg |-> None, ecl_lat_deg |-> None, used_source |-> "missing"]
       /\ (allFail /\ args.force_fallback) =>
            ret = [ecl_lon_deg |-> Some(0), ecl_lat_deg |-> Some(0),
                   used_source |-> "calculated-fallback"]
       /\ ret.used_source = "calculated-fallback" => (allFail /\ args.force_fallback)

C2_Witness ==
  /\ op = "resolve_body"
  /\ Len(args.sources) = 2
  /\ FirstSuccess(args.sources) = {}
  /\ args.force_fallback
  /\ ret.used_source = "calculated-fallback"

\* C3: a result of resolve_body is tagged "missing" exactly when both its
\* longitude and its latitude are null.
C3_MissingIffNull ==
  op = "resolve_body" =>
    (ret.used_source = "missing" <=> (ret.ecl_lon_deg = None /\ ret.ecl_lat_deg = None))

C3_Witness ==
  /\ op = "resolve_body"
  /\ Len(args.sources) > 0
  /\ ~args.force_fallback
  /\ ret.used_source = "missing"
  /\ ret.ecl_lon_deg = None

\* The entries the last resolver call produced.
ResolverEntries ==
  IF op \in {"resolve_body", "process_horizons_entry"} THEN {ret}
  ELSE IF op = "generate_feed_6month" THEN {ret.objects[i] : i \in 1..Len(ret.objects)}
  ELSE {}

\* C4: every entry a resolver produces has both an ecliptic longitude and an
\* ecliptic latitude, or neither.
C4_NeverPartial == \A e \in ResolverEntries : HasLon(e) <=> HasLat(e)

AdapterOps ==
  {"swiss_client.get_ecliptic_lonlat", "horizons_client.get_ecliptic_lonlat",
   "miriade_client.get_ecliptic_lonlat", "mpc_client.get_ecliptic_lonlat",
   "build_overlays.get_swiss"}

\* C5: no source adapter lets an exception escape to its caller: an unknown
\* body identifier or a failing ephemeris call is reported as "no result".
C5_AdaptersNeverRaise == op \in AdapterOps => ret.kind # "raise"

\* ------------------------------------------------------------------------
\* The formula evaluator
\* ------------------------------------------------------------------------

NextFormula == EvaluateArabicFormula

SpecFormula == Init /\ [][NextFormula]_vars

\* The node types of the grammar the specification allows: number literals,
\* named references, binary + - * /, unary + -.
SpecGrammar ==
  {"Constant", "Name", "Load", "BinOp", "Add", "Sub", "Mult", "Div", "UnaryOp", "UAdd", "USub"}

Evaluated == op = "evaluate_arabic_formula"

ParseOfArgs == ast_parse(args.formula.toks)

\* C6: a formula that evaluate_arabic_formula evaluates to a number has a
\* parse tree made only of number literals, named references, binary
\* + - * /, unary + - (and parentheses); any other node type is rejected.
C6_OnlySpecGrammarAccepted ==
  (Evaluated /\ ret.value # None) =>
    (ParseOfArgs.ok /\ NodeTypes(ParseOfArgs.node) \subseteq SpecGrammar)

\* The formula text has a reference that no key of the environment resolves
\* (keys and references compared without regard to case, as the evaluator
\* compares them).
UnresolvedReference(toks, env) ==
  \E i \in 1..Len(toks) :
    /\ toks[i] \in NameTokens
    /\ Lower(toks[i]) \notin {Lower(k) : k \in {key \in DOMAIN env : env[key] # None}}

\* C7: evaluate_arabic_formula returns a pair with exactly one of value and
\* diagnostic non-null, and a formula with a call-like token, an attribute
\* access or a reference to a name that is not in the environment returns
\* (None, diagnostic).
C7_ValueXorDiagnostic ==
  Evaluated =>
    /\ DOMAIN ret = {"value", "diag"}
    /\ (ret.value = None) # (ret.diag = None)
    /\ ( \/ HasCallToken(args.formula.toks)
         \/ \E i \in 1..Len(args.formula.toks) : args.formula.toks[i] = "."
         \/ UnresolvedReference(args.formula.toks, args.env) )
       => (ret.value = None /\ ret.diag # None)

C7_Witness ==
  /\ Evaluated
  /\ args.formula.toks = <<"asc", ".", "real", "+", "2">>
  /\ "asc" \in DOMAIN args.env
  /\ ret = Result(None, Some("unsafe formula content (calls/attributes or disallowed nodes)"))

\* The formula with every reference written in lower case.
RECURSIVE LowerCased(_)
LowerCased(node) ==
  CASE node.t = "Name" -> NameNode(Lower(node.id))
    [] node.t = "BinOp" -> BinOpNode(node.o, LowerCased(node.l), LowerCased(node.r))
    [] node.t = "UnaryOp" -> UnaryOpNode(node.o, LowerCased(node.e))
    [] OTHER -> node

\* main's environment: lower-case keys.
MainEnv(env) == \A k \in DOMAIN env : Lower(k) = k

\* C8: a formula of the specification's grammar whose references all have a
\* resolved value in the environment, in whatever case they are written,
\* evaluates without error to the arithmetic result mod 360 (the arithmetic
\* itself being defined: no division by zero).
C8_ResolvedReferencesEvaluate ==
  ( /\ Evaluated
    /\ args.formula.is_str
    /\ MainEnv(args.env)
    /\ ParseOfArgs.ok
    /\ NodeTypes(ParseOfArgs.node) \subseteq SpecGrammar
    /\ \A id \in NamesIn(ParseOfArgs.node) :
         Lower(id) \in DOMAIN args.env /\ args.env[Lower(id)] # None
    /\ Eval(LowerCased(ParseOfArgs.node), NamesMap(args.env)).k = "num" )
  => ret = FinishEval(Eval(LowerCased(ParseOfArgs.node), NamesMap(args.env)))

\* ------------------------------------------------------------------------
\* The parts of the natal charts
\* ------------------------------------------------------------------------

NextParts == FetchTransitsMain

SpecParts == Init /\ [][NextParts]_vars

LoadedCharts(natals) == {i \in 1..Len(natals) : natals[i].loaded}

\* The entries of a feed that belong to a part of a chart name.
EntriesOf(feed, part_id, name) == {e \in 1..Len(feed) : feed[e].id = <<part_id, name>>}

\* C9: main ends without an exception whatever the natal records hold; the
\* combined feed has exactly one entry per part and loaded natal chart, every
\* loaded chart has its per-natal feed with exactly one entry per part, and
\* an entry is an error entry exactly when the evaluation of that part for
\* that chart reported a diagnostic.
C9_PartErrorsIsolated ==
  op = "fetch_transits.main" =>
    /\ ret # Raised
    /\ \A i \in LoadedCharts(args.natals) : \A j \in 1..Len(args.parts) :
         LET name == args.natals[i].name
             part == args.parts[j]
             expected == PartEntry(part, name, NatalEnv(args.natals[i]))
         IN /\ name \in DOMAIN ret.per_natal
            /\ Cardinality(EntriesOf(ret.per_natal[name], part.id, name)) = 1
            /\ \E e \in EntriesOf(ret.per_natal[name], part.id, name) :
                 ret.per_natal[name][e] = expected
            /\ Cardinality(EntriesOf(ret.combined, part.id, name))
                 = Cardinality({k \in LoadedCharts(args.natals) : args.natals[k].name = name})
            /\ \E e \in EntriesOf(ret.combined, part.id, name) : ret.combined[e] = expected

\* ------------------------------------------------------------------------
\* The derived points of the overlay
\* ------------------------------------------------------------------------

NextOverlay == ComputePositions

SpecOverlay == Init /\ [][NextOverlay]_vars

InCircle(pos) == pos.ecl_lon_deg # None /\ pos.ecl_lon_deg[1] >= 0 /\ pos.ecl_lon_deg[1] < Circle

\* C10: every longitude of the six Arabic Parts and of the 8th and 9th
\* harmonics is at least 0 and less than 360 degrees, for all asc, sun and
\* moon in [0, 360).
C10_DerivedLongitudesInCircle ==
  op = "compute_positions" =>
    /\ \A n \in DOMAIN ret.parts : InCircle(ret.parts[n])
    /\ \A h \in DOMAIN ret.harmonics : InCircle(ret.harmonics[h])

\* ------------------------------------------------------------------------
\* The angles and parts augment_feed adds
\* ------------------------------------------------------------------------

NextAugment == AugmentFeedMain

SpecAugment == Init /\ [][NextAugment]_vars

AugmentWritten == op = "augment_feed.main" /\ ret.kind = "written"

\* C11: in the angle block augment_feed.main writes, desc_deg is
\* (asc_deg + 180) mod 360 and ic_deg is (mc_deg + 180) mod 360, and both
\* lie in [0, 360), for every Ascendant and Midheaven in [0, 360).
C11_OppositeAngles ==
  AugmentWritten =>
    LET a == ret.out.angles
    IN /\ a.asc_deg = args.asc /\ a.mc_deg = args.mc
       /\ a.desc_deg = (a.asc_deg + 180000) % 360000
       /\ a.ic_deg = (a.mc_deg + 180000) % 360000
       /\ a.desc_deg >= 0 /\ a.desc_deg < 360000
       /\ a.ic_deg >= 0 /\ a.ic_deg < 360000

\* The Ascendant is just below 360 and the Midheaven is 0.
C11_Witness ==
  /\ AugmentWritten
  /\ ret.out.angles.asc_deg = 359999 /\ ret.out.angles.desc_deg = 179999
  /\ ret.out.angles.mc_deg = 0 /\ ret.out.angles.ic_deg = 180000

\* ------------------------------------------------------------------------
\* The angles and parts compute_angles_and_parts adds
\* ------------------------------------------------------------------------

NextAngles == ComputeAnglesAndPartsMain

SpecAngles == Init /\ [][NextAngles]_vars

AnglesWritten == op = "compute_angles_and_parts.main" /\ ret.kind = "written"

\* The entry of a kind for target i among the objects written.
TargetEntry(kind, i) ==
  ret.out.objects[CHOOSE e \in 1..Len(ret.out.objects) :
                    ret.out.objects[e].id = <<kind, TargetNames[i]>>]

\* C12: for each target the branch is "day" exactly when the Sun's computed
\* altitude is strictly above 0 (an altitude of 0 is night); under "day"
\* Fortune is ASC + Moon - Sun and Spirit is ASC + Sun - Moon, under "night"
\* Fortune is ASC + Sun - Moon and Spirit is ASC + Moon - Sun, mod 360.
C12_DayNightBranch ==
  AnglesWritten =>
    \A i \in 1..Len(args.targets) :
      LET t == args.targets[i]
          sun == get_body_lon_from_feed(args.sun)[1]
          moon == get_body_lon_from_feed(args.moon)[1]
          alt_deg == AsinDegrees(ClipSine(t.sin_alt))
          pof == TargetEntry("PartOfFortune", i)
          pos == TargetEntry("PartOfSpirit", i)
      IN /\ pof.branch = pos.branch
         /\ pof.branch \in {"day", "night"}
         /\ (pof.branch = "day") <=> (alt_deg > 0)
         /\ pof.branch = "day" =>
              /\ pof.ecl_lon_deg = (t.asc + moon - sun) % 360
              /\ pos.ecl_lon_deg = (t.asc + sun - moon) % 360
         /\ pof.branch = "night" =>
              /\ pof.ecl_lon_deg = (t.asc + sun - moon) % 360
              /\ pos.ecl_lon_deg = (t.asc + moon - sun) % 360

\* A target with the Sun exactly on the horizon, next to one in daylight.
C12_Witness ==
  /\ AnglesWritten
  /\ Len(args.targets) = 2
  /\ args.targets[1].sin_alt = 0 /\ TargetEntry("PartOfFortune", 1).branch = "night"
  /\ args.targets[2].sin_alt = 50 /\ TargetEntry("PartOfSpirit", 2).branch = "day"

\* ------------------------------------------------------------------------
\* The points of the projected feeds
\* ------------------------------------------------------------------------

NextProjected == GenerateFeed60DayPoints \/ GenerateFeed6MonthPoints

SpecProjected == Init /\ [][NextProjected]_vars

ProjectedPoints ==
  /\ op \in {"generate_feed_60day.points", "generate_feed_6month.points"}
  /\ ret.kind = "entries"

\* The Sun, a point of the ecliptic, is above the horizon when it lies on
\* the half of the ecliptic that has risen: less than 180 degrees before the
\* Ascendant.
SunAboveHorizon(asc, sun_lon) == (asc - sun_lon) % 360 \in 1..179

\* C13: in the projected feeds the "branch" of Part of Fortune and Part of
\* Spirit names the branch in force at the site and time (day when the Sun
\* is above the horizon, night otherwise), and the longitudes are those of
\* that branch's formulas.
C13_ProjectedBranchInForce ==
  ProjectedPoints =>
    LET day == SunAboveHorizon(args.asc, args.sun.lon)
        pof == ret.objects[3]
        pos == ret.objects[4]
        dayFortune == (args.asc + args.moon.lon - args.sun.lon) % 360
        daySpirit == (args.asc + args.sun.lon - args.moon.lon) % 360
    IN /\ pof.branch = (IF day THEN "day" ELSE "night")
       /\ pos.branch = pof.branch
       /\ pof.ecl_lon_deg = (IF day THEN dayFortune ELSE daySpirit)
       /\ pos.ecl_lon_deg = (IF day THEN daySpirit ELSE dayFortune)

\* ------------------------------------------------------------------------
\* The bodies of the overlay
\* ------------------------------------------------------------------------

NextOverlayBodies == ComputePositionsBodies

SpecOverlayBodies == Init /\ [][NextOverlayBodies]_vars

OverlayComputed == op = "compute_positions.bodies" /\ ret.kind = "positions"

\* No adapter of the chain of body i returned a position at this run.
NoRealSource(i) ==
  \A k \in 1..Len(OverlayChain(OverlayBodies[i], args.jpl[i], args.sw[i], args.when_ok)) :
    ~Truthy(CallAdapter(OverlayChain(OverlayBodies[i], args.jpl[i], args.sw[i],
                                     args.when_ok)[k].outcome))

\* C14: when no real source supplied the Sun or the Moon, the Arabic Parts,
\* which all depend on both, are unavailable: absent, or with a null
\* longitude.
C14_NoPartsFromDefault ==
  (OverlayComputed /\ (NoRealSource(1) \/ NoRealSource(2))) =>
    \A n \in DOMAIN ret.parts : ret.parts[n].ecl_lon_deg = None

\* The position of body i is synthetic: a pseudo-position of an Aether
\* body, or the placeholder given to a body that no adapter resolved.
Synthetic(i) ==
  /\ ret.bodies[i].ecl_lon_deg # None
  /\ (Upper(OverlayBodies[i]) \in AETHER_IDS \/ NoRealSource(i))

\* C15: every synthetic position of the overlay feed carries a provenance
\* tag other than the tags of real ephemeris data ("jpl", "swiss").
C15_SyntheticPositionsTagged ==
  OverlayComputed =>
    \A i \in 1..Len(OverlayBodies) :
      Synthetic(i) => ret.bodies[i].used_source \notin {"jpl", "swiss"}

\* ------------------------------------------------------------------------
\* The builders that loop over bodies
\* ------------------------------------------------------------------------

NextBuilders == BuildOverlaysMain \/ GenerateFeed60DayBodies \/ ComputePositionsBodies

SpecBuilders == Init /\ [][NextBuilders]_vars

\* The local calculator raises for exactly one body of the run.
OneBodyFails ==
  \/ /\ op = "build_overlays.main"
     /\ DOMAIN get_jpl_batch(args.batch_outs, 3).result = {}
     /\ Cardinality({b \in DOMAIN args.sw : args.sw[b].kind = "fail"}) = 1
  \/ /\ op = "generate_feed_60day.bodies"
     /\ Cardinality({i \in 1..Len(Planets60) : args.sw_planets[i].kind = "fail"})
        + Cardinality({i \in 1..Len(Asteroids60) : args.sw_asteroids[i].kind = "fail"}) = 1

\* C16: when the resolution of one body fails in build_overlays.main or in
\* the body loops of generate_feed_60day.main, the feed is still written, and
\* every other body has its entry in it with its source.
C16_BodyFailuresIsolated ==
  OneBodyFails =>
    /\ ret.kind = "written"
    /\ op = "build_overlays.main" =>
         \A b \in DOMAIN args.sw :
           args.sw[b].kind = "ok" =>
             \E i \in 1..Len(ret.out) : ret.out[i].id = b /\ ret.out[i].source # ""
    /\ op = "generate_feed_60day.bodies" =>
         /\ \A i \in 1..Len(Planets60) :
              args.sw_planets[i].kind = "ok" =>
                \E k \in 1..Len(ret.out) :
                  ret.out[k].id = Planets60[i] /\ ret.out[k].source = "swiss"
         /\ \A i \in 1..Len(Asteroids60) :
              args.sw_asteroids[i].kind = "ok" =>
                \E k \in 1..Len(ret.out) :
                  ret.out[k].id = Asteroids60[i] /\ ret.out[k].source = "swiss-asteroid"

\* ------------------------------------------------------------------------
\* The runs that end with an exit status
\* ------------------------------------------------------------------------

NextFatal == GenerateFeedBuildFeed \/ AugmentFeedMain \/ ComputeAnglesAndPartsMain

SpecFatal == Init /\ [][NextFatal]_vars

\* The input feed of the run is there and has its "generated_at_utc".
SetupOk ==
  \/ op = "generate_feed.build_feed"
  \/ op = "augment_feed.main" /\ args.feed.generated_at_utc
  \/ op = "compute_angles_and_parts.main" /\ args.generated

\* C17: a run of generate_feed.build_feed, augment_feed.main or
\* compute_angles_and_parts.main whose setup is in order does not end with an
\* exit status, whatever positions are missing.
C17_MissingDataNeverAborts == SetupOk => ret.kind # "exit"

\* ------------------------------------------------------------------------
\* The remote rows with equatorial coordinates only
\* ------------------------------------------------------------------------

NextEquatorial ==
  \/ HorizonsGetEclipticLonLat
  \/ MiriadeGetEclipticLonLat
  \/ ProcessHorizonsEntry

SpecEquatorial == Init /\ [][NextEquatorial]_vars

\* The row the adapter read has no ecliptic longitude or no ecliptic
\* latitude, and has both RA and DEC.
HorizonsRowEquatorial ==
  /\ op = "horizons_client.get_ecliptic_lonlat"
  /\ args.when_ok /\ args.eph.kind = "table"
  /\ args.eph.EclLon = None \/ args.eph.EclLat = None
  /\ args.eph.RA # None /\ args.eph.DEC # None

MiriadeRowEquatorial ==
  /\ op = "miriade_client.get_ecliptic_lonlat"
  /\ args.ans.kind = "row"
  /\ \/ args.ans.elon = None /\ args.ans.ecllon = None
     \/ args.ans.elat = None /\ args.ans.ecllat = None
  /\ args.ans.ra # None /\ args.ans.dec # None

EntryRowEquatorial ==
  /\ op = "process_horizons_entry"
  /\ args.q.kind = "row"
  /\ \/ ~args.q.has_lon \/ args.q.EclLon = None
     \/ ~args.q.has_lat \/ args.q.EclLat = None
  /\ args.q.RA # None /\ args.q.DEC # None

\* C18: for a row without an ecliptic longitude or latitude that has both RA
\* and DEC, whatever their values, horizons_client.get_ecliptic_lonlat,
\* miriade_client.get_ecliptic_lonlat and process_horizons_entry return the
\* pair of the conversion, its longitude in [0, 360).
C18_EquatorialRowsConverted ==
  /\ HorizonsRowEquatorial =>
       LET fb == ra_dec_to_ecl(args.eph.RA[1], args.eph.DEC[1], args.trig)
       IN ret = Position(fb[1], fb[2]) /\ ret.val[1] \in 0..359
  /\ MiriadeRowEquatorial =>
       LET fb == ra_dec_to_ecl(args.ans.ra[1], args.ans.dec[1], args.trig)
       IN ret = Position(fb[1], fb[2]) /\ ret.val[1] \in 0..359
  /\ EntryRowEquatorial =>
       LET fb == compute_ecl_from_ra_dec(args.q.RA[1], args.q.DEC[1], args.conv)
       IN /\ ret.ecl_lon_deg = fb[1] /\ ret.ecl_lat_deg = fb[2]
          /\ fb[1][1] \in 0..359

\* ------------------------------------------------------------------------
\* The retry loops
\* ------------------------------------------------------------------------

NextRetry == GetJplBatch \/ QueryHorizonsId

SpecRetry == Init /\ [][NextRetry]_vars

IsQuery(c) == c.call = "query"

IsSleep(c) == c.call = "sleep"

\* Between two queries of a run there is a wait, and the waits of the run
\* are first, 2 * first, 4 * first, ...
BackoffBetweenQueries(first) ==
  /\ \A i \in 1..(Len(calls) - 1) : ~(IsQuery(calls[i]) /\ IsQuery(calls[i + 1]))
  /\ LET sleeps == SelectSeq(calls, IsSleep)
     IN \A i \in 1..Len(sleeps) : sleeps[i].secs = first * Pow2(i - 1)

\* The attempts of the run that did not fail.
RowAttempts ==
  IF op = "build_overlays.get_jpl_batch"
  THEN {i \in 1..args.retries :
          attempt_result(args.outs[i]).ok /\ DOMAIN attempt_result(args.outs[i]).result # {}}
  ELSE {i \in 1..args.max_attempts : args.outs[i] # "raise"}

\* The run made exactly the queries up to its first attempt that did not
\* fail, or all of them when every attempt failed.
StopsAtFirstSuccess(limit) ==
  LET n == Len(SelectSeq(calls, IsQuery))
  IN /\ n <= limit
     /\ IF RowAttempts = {} THEN n = limit
        ELSE \A i \in RowAttempts : n <= i

\* C19: query_horizons_id and get_jpl_batch make at most max_attempts
\* (retries) queries, make none after the first one that succeeds, wait a
\* delay that doubles between the attempts, and do not raise: when every
\* attempt failed they return (False, last exception), or the empty map.
C19_RetryLoopsBoundedBackoff ==
  /\ op = "fetch_transits.query_horizons_id" =>
       /\ ~ret.raised
       /\ StopsAtFirstSuccess(args.max_attempts)
       /\ BackoffBetweenQueries(args.backoff_base)
       /\ RowAttempts = {} => ret.ok = FALSE /\ ret.res = "exception"
  /\ op = "build_overlays.get_jpl_batch" =>
       /\ ~ret.raised
       /\ StopsAtFirstSuccess(args.retries)
       /\ BackoffBetweenQueries(2)
       /\ RowAttempts = {} => DOMAIN ret.result = {}

\* ------------------------------------------------------------------------
\* The source hierarchy of the 6-month feed
\* ------------------------------------------------------------------------

NextSixMonth == GenerateFeed6MonthMain

SpecSixMonth == Init /\ [][NextSixMonth]_vars

\* The place of a source tag in meta.source_order, 0 when it is not there.
OrderIndex(tag) ==
  IF \E k \in 1..Len(source_order_6month) : source_order_6month[k] = tag
  THEN CHOOSE k \in 1..Len(source_order_6month) : source_order_6month[k] = tag
  ELSE 0

\* C20: in a day of generate_feed_6month, every entry with a position has a
\* source tag of meta.source_order, and the sources consulted for its body
\* are those of the order up to that tag, in that order: Horizons first, a
\* later source only after every earlier one.
C20_SourceOrderFollowed ==
  (op = "generate_feed_6month.main" /\ ret.status = "ok") =>
    \A i \in 1..Len(ret.objects) :
      "source" \in DOMAIN ret.objects[i] =>
        /\ OrderIndex(ret.objects[i].source) > 0
        /\ calls[i] = SubSeq(ret.source_order, 1, OrderIndex(ret.objects[i].source))

\* ------------------------------------------------------------------------
\* The harmonics
\* ------------------------------------------------------------------------

NextHarmonics == ComputeHarmonics

SpecHarmonics == Init /\ [][NextHarmonics]_vars

ResolvedBodies == {b \in DOMAIN args.base_positions : args.base_positions[b].ecl_lon_deg # None}

\* C21: compute_harmonics returns, for every entry of base_positions with a
\* longitude L, the entries <body>_h8 = (L * 8) mod 360 and <body>_h9 =
\* (L * 9) mod 360, returns no entry for a body whose longitude is None, and
\* leaves base_positions as it was.
C21_HarmonicsOfResolved ==
  op = "compute_harmonics" =>
    /\ DOMAIN ret.harmonics = ResolvedBodies \X {8, 9}
    /\ \A h \in DOMAIN ret.harmonics :
         ret.harmonics[h].ecl_lon_deg
           = Some((args.base_positions[h[1]].ecl_lon_deg[1] * h[2]) % Circle)
    /\ ret.base_positions = args.base_positions

\* A run with a body without longitude, a negative longitude and a
\* longitude whose 8th harmonic wraps.
C21_Witness ==
  /\ op = "compute_harmonics"
  /\ args.base_positions["Sun"].ecl_lon_deg = None
  /\ args.base_positions["Moon"].ecl_lon_deg = Some(HalfDegrees(359))
  /\ args.base_positions["Part_of_Fortune"].ecl_lon_deg = Some(HalfDegrees(-100))
  /\ DOMAIN ret.harmonics # {}

\* ------------------------------------------------------------------------
\* The dry run of the generator
\* ------------------------------------------------------------------------

NextGenerator == FetchTransitsGenerator

SpecGenerator == Init /\ [][NextGenerator]_vars

DryRun == op = "fetch_transits.main.generator" /\ args.dry_run

NoWriteJson == \A k \in 1..Len(calls) : calls[k].call # "write_json"

\* The run got as far as the output: the configuration loaded and float()
\* converted every value of the natal records that were read.
ReachesOutput ==
  /\ args.cfg_ok
  /\ \A i \in 1..Len(args.natals) :
       args.natals[i].loaded => ~NatalEnvRaises(args.natals[i])

\* C22 as stated: with --dry-run, main never calls write_json and returns 0.
C22_DryRunWritesNothingReturns0 == DryRun => NoWriteJson /\ ret = Return(0)

\* C22: with --dry-run, main calls write_json on no path, for the combined
\* feed, the per-natal feeds or the overlay feed; it returns 0 when the run
\* gets to the output, returns 2 when the configuration does not load, and
\* ends with the exception of a natal value that is no number.
C22_DryRunWritesNothing ==
  DryRun =>
    /\ NoWriteJson
    /\ ReachesOutput => ret = Return(0)
    /\ ~args.cfg_ok => ret = Return(2)
    /\ (args.cfg_ok /\ ~ReachesOutput) => ret = Raised

\* A dry run with two natal feeds and an overlay, whose run without
\* --dry-run writes four files.
C22_Witness ==
  /\ DryRun /\ ReachesOutput
  /\ Len(OutputFiles(args.natals, args.chart_names)) = 4
  /\ ret = Return(0) /\ calls = <<MakeDirs>>

\* ------------------------------------------------------------------------
\* The houses and the angles
\* ------------------------------------------------------------------------

NextHouses == SwissAngles \/ BuildOverlaysComputeAngles \/ ComputeHouseCusps

SpecHouses == Init /\ [][NextHouses]_vars

\* C23: the houses_deg of the Houses@<name> object are the 12 cusps swe.houses
\* returned, cusp 1 to cusp 12 in order, each in [0, 360).
C23_TwelveCuspsInOrder ==
  op = "compute_angles_and_parts.swiss_angles" =>
    ret.houses_entry = [i \in 1..12 |-> Some(args.cusps[i] % 360)]

\* C24: build_overlays.compute_angles, swiss_angles and compute_house_cusps
\* each report as ASC and MC the first and the second element of the tuple
\* of angles swe.houses returned.
C24_AnglesFromAngleArray ==
  /\ op = "compute_angles_and_parts.swiss_angles" =>
       ret.ang.ASC_deg = args.ascmc[1] /\ ret.ang.MC_deg = args.ascmc[2]
  /\ op = "build_overlays.compute_angles" =>
       ret.ASC = args.ascmc[1] /\ ret.MC = args.ascmc[2]
  /\ op = "generate_feed_overlay.compute_house_cusps" =>
       ret.ASC = args.ascmc[1] /\ ret.MC = args.ascmc[2]

\* ------------------------------------------------------------------------
\* The objects of build_feed
\* ------------------------------------------------------------------------

NextBuildFeed == GenerateFeedBuildFeed

SpecBuildFeed == Init /\ [][NextBuildFeed]_vars

\* C25: whatever queries fail, the objects of build_feed are one per entry of
\* TARGETS, in the order of TARGETS; the object of a target has an "error"
\* when its query or conversion failed and an "ecliptic" block otherwise,
\* never both and never neither.
C25_OneObjectPerTarget ==
  op = "generate_feed.build_feed" =>
    /\ Len(ret.out) = Len(FeedTargets)
    /\ \A i \in 1..Len(FeedTargets) :
         /\ ret.out[i].id = FeedTargets[i]
         /\ ret.out[i].error <=> ret.out[i].ecliptic = None
         /\ ret.out[i].error <=> args.fetched[i].kind = "fail"

\* A run where the query of the Sun fails, the conversion of the Moon fails
\* and Mars is resolved.
C25_Witness ==
  /\ op = "generate_feed.build_feed"
  /\ args.fetched[1] = [kind |-> "fail", stage |-> "fetch"]
  /\ args.fetched[2] = [kind |-> "fail", stage |-> "convert"]
  /\ args.fetched[3].kind = "ok"
  /\ ret.out[3].ecliptic # None

\* ------------------------------------------------------------------------
\* The map of the batch
\* ------------------------------------------------------------------------

\* The attempt whose rows get_jpl_batch returned: the last query of the run.
ReturnedAttempt == args.outs[Len(SelectSeq(calls, IsQuery))]

\* C26: get_jpl_batch returns the empty map, or a non-empty map whose
\* entries are all tagged "jpl" with a longitude in [0, 360) and are all the
\* rows of one attempt; an attempt with a row whose longitude is out of
\* range contributes no entry and counts as failed.
C26_BatchAllOrNothing ==
  op = "build_overlays.get_jpl_batch" =>
    /\ \A n \in DOMAIN ret.result :
         ret.result[n].src = "jpl" /\ ret.result[n].val[1] \in 0..359
    /\ DOMAIN ret.result # {} =>
         /\ ReturnedAttempt.kind = "table"
         /\ \A n \in BatchNames : ReturnedAttempt.rows[n] # None =>
              /\ ReturnedAttempt.rows[n][1] \in 0..359
              /\ n \in DOMAIN ret.result
              /\ ret.result[n].val[1] = ReturnedAttempt.rows[n][1]
         /\ \A n \in DOMAIN ret.result : ReturnedAttempt.rows[n] # None
    /\ (\A i \in 1..args.retries :
          \E n \in BatchNames : args.outs[i].rows[n] = Some(360))
       => DOMAIN ret.result = {}

\* A run whose first attempt has a good row and a row out of range, and
\* whose second attempt is returned.
C26_Witness ==
  /\ op = "build_overlays.get_jpl_batch"
  /\ args.retries >= 2
  /\ args.outs[1].rows = [n \in BatchNames |-> IF n = "Sun" THEN Some(10) ELSE Some(360)]
  /\ args.outs[2].kind = "table"
  /\ DOMAIN ret.result = BatchNames
  /\ Len(SelectSeq(calls, IsQuery)) = 2

\* ------------------------------------------------------------------------
\* The identifiers of the bodies
\* ------------------------------------------------------------------------

NextWrapper == HorizonsWrapperPair

SpecWrapper == Init /\ [][NextWrapper]_vars

\* C27: two distinct names passed to horizons_wrapper are never queried
\* against Horizons with the same identifier.
C27_IdentifiersInjective ==
  (op = "horizons_wrapper.pair" /\ calls[1] # None /\ calls[2] # None)
    => calls[1] # calls[2]

\* ------------------------------------------------------------------------
\* The Miriade rows with a value of 0
\* ------------------------------------------------------------------------

NextMiriade == MiriadeGetEclipticLonLat

SpecMiriade == Init /\ [][NextMiriade]_vars

\* The row carries an ecliptic longitude and an ecliptic latitude, under
\* the keys the adapter reads first.
RowHasEcliptic ==
  /\ op = "miriade_client.get_ecliptic_lonlat"
  /\ args.ans.kind = "row"
  /\ args.ans.elon # None /\ args.ans.elat # None

\* C28: for a row with an ecliptic longitude and latitude, 0 included,
\* miriade_client.get_ecliptic_lonlat returns (longitude mod 360, latitude)
\* and never None.
C28_ZeroIsData ==
  RowHasEcliptic =>
    ret = Position(args.ans.elon[1] % 360, args.ans.elat[1])

\* ------------------------------------------------------------------------
\* The writes of augment_feed and compute_angles_and_parts
\* ------------------------------------------------------------------------

NextFeedWrites == AugmentFeedMain \/ ComputeAnglesAndPartsMain

SpecFeedWrites == Init /\ [][NextFeedWrites]_vars

\* The feed lacks generated_at_utc, or the longitude of a body the run
\* requires.
FeedIncomplete ==
  \/ /\ op = "augment_feed.main"
     /\ \/ ~args.feed.generated_at_utc
        \/ \E i \in 1..Len(args.feed.objects) : args.feed.objects[i].lon = None
  \/ /\ op = "compute_angles_and_parts.main"
     /\ \/ ~args.generated
        \/ get_body_lon_from_feed(args.sun) = None
        \/ get_body_lon_from_feed(args.moon) = None

NextMirror == PartFortuneSpirit \/ AugmentComputeArabicParts

SpecMirror == Init /\ [][NextMirror]_vars

\* C30: for asc, sun and moon in [0, 360) and either branch, part_fortune
\* on one branch equals part_spirit on the other, and part_fortune +
\* part_spirit is congruent to 2 * asc modulo 360; fortune_deg and
\* spirit_deg of augment_feed.compute_arabic_parts satisfy the same.
C30_FortuneSpiritMirror ==
  /\ op = "compute_angles_and_parts.parts" =>
       /\ ret.fortune = ret.spirit_other
       /\ ret.spirit = ret.fortune_other
       /\ (ret.fortune + ret.spirit - 2 * args.asc) % 360 = 0
  /\ op = "augment_feed.compute_arabic_parts" =>
       /\ ret.parts.fortune_deg = ret.parts_other.spirit_deg
       /\ ret.parts.spirit_deg = ret.parts_other.fortune_deg
       /\ (ret.parts.fortune_deg + ret.parts.spirit_deg - 2 * args.asc) % Turn = 0

\* A daytime run where asc + (moon - sun) is negative, so that the Part of
\* Fortune wraps around and differs from the Part of Spirit.
C30_Witness ==
  /\ op = "compute_angles_and_parts.parts"
  /\ args.day /\ args.asc + (args.moon - args.sun) < 0
  /\ ret.fortune # ret.spirit
  /\ ret.fortune = args.asc + (args.moon - args.sun) + 360

=============================================================================
